---- MODULE Spec2Model ----
(***************************************************************************)
(* A model of the SER player: the LRU frame cache (frame_cache.py), the    *)
(* SER container parser (ser_parser.py), the VideoFile (file_manager.py),  *)
(* lucky imaging and stacking (lucky_imaging.py, stacker.py), colour       *)
(* reconstruction (image_processor.py), frame alignment                    *)
(* (frame_aligner.py), and the main window with its playback controller.   *)
(***************************************************************************)
EXTENDS Integers, Sequences, FiniteSets, TLC

(***************************************************************************)
(* Bounds of the model.                                                    *)
(***************************************************************************)
\* frame indices used as cache keys are 0 .. NumKeys-1
NumKeys == 3
\* FrameCache is constructed with max_size in 0 .. MaxCap
MaxCap == 2
\* prefetch is called with lists of at most MaxPrefetch indices
MaxPrefetch == 2
\* SER files have images of 1 .. MaxWidth by 1 .. MaxHeight samples
MaxWidth == 2
MaxHeight == 2
\* and a FrameCount field of 0 .. MaxCount
MaxCount == 2
\* lucky imaging runs on 1 .. MaxFrames frames with sharpness scores in
\* 0 .. MaxScore
MaxFrames == 3
MaxScore == 2
\* stacking runs on 1 .. MaxStack frames
MaxStack == 5

Keys == 0 .. (NumKeys - 1)
\* the frame buffers a caller can store; two, so that an update is visible
Frames == {"fa", "fb"}
\* Python's None
None == "None"
NoKey == -1

VARIABLES
    max_size,   \* FrameCache.max_size
    cache,      \* FrameCache._cache: sequence of [k, v], oldest first
    lastOp,     \* the last FrameCache call: name, arguments, result, cache before
    prevHit,    \* the key the call before that one found, when it was a get
    pfTrace,    \* per requested index, what the last traced prefetch did
    file,       \* the SER file on disk: its size and the bytes of its header
    header,     \* SERParser.header
    frame_size, \* SERParser._frame_size
    has_ts,     \* SERParser._has_timestamps
    pOp,        \* the last SERParser call: name, index, result, file reads
    handle,     \* SERParser._file_handle: "none", "open" or "closed"
    vf,         \* the VideoFile object: how its construction ended
    lk,         \* a lucky-imaging run: frame scores, percentage, selection
    sv,         \* a stacking run on uniform frames: pixel values, result
    st,         \* a run of _stack_and_save: position, counters, outcome
    cr,         \* a colour reconstruction: the scene, the call, the image
    al,         \* a call of an alignment function: the estimate, the result
    view,       \* the main window: open file, CYYM_PATTERN, cache, last
                \* display, open "Display Error" boxes
    pb          \* the NavigationController and PlaybackController of the
                \* file, their timers, and the controllers of earlier files

cacheVars == <<max_size, cache, lastOp, prevHit, pfTrace>>
parserVars == <<file, header, frame_size, has_ts, pOp>>
openVars == <<handle, vf>>
\* what the calls of the cache, and the calls of the parser, leave alone
pipelineVars == <<lk, sv, st>>
viewVars == <<cr, al, view, pb>>
nonCacheVars == <<parserVars, openVars, pipelineVars, viewVars>>
nonParserVars == <<cacheVars, openVars, pipelineVars, viewVars>>
\* the frame source, which the selection and stacking calls only read, and
\* the display side, which they do not touch
sourceVars == <<cacheVars, parserVars, openVars, viewVars>>
\* what the calls of the display side leave alone
nonViewVars == <<cacheVars, parserVars, openVars, pipelineVars>>
vars == <<cacheVars, parserVars, openVars, pipelineVars, viewVars>>

(***************************************************************************)
(* OrderedDict, as FrameCache uses it.                                     *)
(***************************************************************************)
KeysOf(c) == {c[j].k : j \in 1 .. Len(c)}

\* position of key k in c (k is present)
IndexOf(c, k) == CHOOSE j \in 1 .. Len(c) : c[j].k = k

\* OrderedDict.__getitem__
GetItem(c, k) == c[IndexOf(c, k)].v

\* c without the entry of key k, order kept
RemoveKey(c, k) == SelectSeq(c, LAMBDA e : e.k # k)

\* a plausible slip: move_to_end(k, last=False)
move_to_front(c, k) == <<c[IndexOf(c, k)]>> \o RemoveKey(c, k)

\* OrderedDict.move_to_end(k): the entry of k becomes the last one
move_to_end(c, k) == Append(RemoveKey(c, k), c[IndexOf(c, k)])

\* OrderedDict.__setitem__: an existing key keeps its position, a new key
\* is appended
SetItem(c, k, v) ==
    IF k \in KeysOf(c)
    THEN [j \in 1 .. Len(c) |-> IF c[j].k = k THEN [k |-> k, v |-> v] ELSE c[j]]
    ELSE Append(c, [k |-> k, v |-> v])

\* a plausible slip: popitem() with the default last=True
popitem_last(c) == SubSeq(c, 1, Len(c) - 1)

\* OrderedDict.popitem(last=False): drops the first (oldest) entry
popitem_first(c) == SubSeq(c, 2, Len(c))

(***************************************************************************)
(* FrameCache.get and FrameCache.put as functions of the cache.            *)
(***************************************************************************)
\* a plausible slip: get that does not promote the key
GetCacheNoPromote(c, k) == c

\* the cache after get(k)
GetCache(c, k) == IF k \in KeysOf(c) THEN move_to_end(c, k) ELSE c

\* the value get(k) returns
GetRet(c, k) == IF k \in KeysOf(c) THEN GetItem(move_to_end(c, k), k) ELSE None

\* a plausible slip: evicts one entry too late
PutCacheLate(c, m, k, v) ==
    IF k \in KeysOf(c)
    THEN SetItem(move_to_end(c, k), k, v)
    ELSE LET added == SetItem(c, k, v)
         IN  IF Len(added) > m + 1 THEN popitem_first(added) ELSE added

\* the cache after put(k, v) with capacity m
PutCache(c, m, k, v) ==
    IF k \in KeysOf(c)
    THEN SetItem(move_to_end(c, k), k, v)
    ELSE LET added == SetItem(c, k, v)
         IN  IF Len(added) > m THEN popitem_first(added) ELSE added

(***************************************************************************)
(* FrameCache.prefetch.  outcomes[j] is what fetch_func does when it is    *)
(* called for indices[j]: it returns a frame, or raises ("raise").         *)
(* The result is one record per list position: the index, whether          *)
(* fetch_func was called, and the cache after the position.                *)
(***************************************************************************)
Raise == "raise"

\* one pass of the loop body for index k with fetch outcome o; the except
\* clause catches what fetch_func raises, so nothing is propagated
PrefetchStep(c, m, k, o) ==
    IF k \notin KeysOf(c)
    THEN IF o # Raise
         THEN [idx |-> k, called |-> TRUE, propagated |-> FALSE,
               after |-> PutCache(c, m, k, o)]
         ELSE [idx |-> k, called |-> TRUE, propagated |-> FALSE, after |-> c]
    ELSE [idx |-> k, called |-> FALSE, propagated |-> FALSE, after |-> c]

RECURSIVE PrefetchStopAtFailure(_, _, _, _)
\* a plausible slip: no except clause, so the first failure ends the loop
\* and reaches the caller
PrefetchStopAtFailure(c, m, indices, outcomes) ==
    IF indices = <<>>
    THEN <<>>
    ELSE LET s == PrefetchStep(c, m, Head(indices), Head(outcomes))
         IN  IF s.called /\ Head(outcomes) = Raise
             THEN <<[s EXCEPT !.propagated = TRUE]>>
             ELSE <<s>> \o PrefetchStopAtFailure(s.after, m, Tail(indices), Tail(outcomes))

RECURSIVE PrefetchTrace(_, _, _, _)
\* the loop of prefetch: one step record per index of the list
PrefetchTrace(c, m, indices, outcomes) ==
    IF indices = <<>>
    THEN <<>>
    ELSE LET s == PrefetchStep(c, m, Head(indices), Head(outcomes))
         IN  <<s>> \o PrefetchTrace(s.after, m, Tail(indices), Tail(outcomes))

\* the cache after prefetch
PrefetchCache(c, m, indices, outcomes) ==
    LET t == PrefetchTrace(c, m, indices, outcomes)
    IN  IF t = <<>> THEN c ELSE t[Len(t)].after

\* the lists prefetch is called with, and the outcomes of fetch_func
SeqsUpTo(S, n) == UNION {[1 .. l -> S] : l \in 0 .. n}
IndexLists == SeqsUpTo(Keys, MaxPrefetch)
\* fetch_func returns the frame Fetched or raises
Fetched == "fb"
OutcomeLists(l) == [1 .. l -> {Fetched, Raise}]

(***************************************************************************)
(* The FrameCache object.                                                  *)
(***************************************************************************)
NoOp == [op |-> "init", key |-> NoKey, val |-> None, ret |-> None, pre |-> <<>>]
\* what is kept of the call before the last one: the key it found, when it
\* was a get that found its key
Brief(o) == IF o.op = "get" /\ o.ret # None THEN o.key ELSE NoKey

NoTrace == [done |-> FALSE, indices |-> <<>>, outcomes |-> <<>>, steps |-> <<>>]

\* FrameCache.__init__
FreshCache ==
    /\ cache = <<>>
    /\ lastOp = NoOp
    /\ prevHit = Brief(NoOp)
    /\ pfTrace = NoTrace

InitCache ==
    /\ max_size \in 0 .. MaxCap
    /\ FreshCache

get(k) ==
    /\ cache' = GetCache(cache, k)
    /\ lastOp' = [op |-> "get", key |-> k, val |-> None,
                  ret |-> GetRet(cache, k), pre |-> cache]
    /\ prevHit' = Brief(lastOp)
    /\ UNCHANGED <<max_size, pfTrace, nonCacheVars>>

put(k, v) ==
    /\ cache' = PutCache(cache, max_size, k, v)
    /\ lastOp' = [op |-> "put", key |-> k, val |-> v, ret |-> None, pre |-> cache]
    /\ prevHit' = Brief(lastOp)
    /\ UNCHANGED <<max_size, pfTrace, nonCacheVars>>

\* what clear does to the cache
ClearCache ==
    /\ cache' = <<>>
    /\ lastOp' = [op |-> "clear", key |-> NoKey, val |-> None, ret |-> None,
                  pre |-> cache]
    /\ prevHit' = Brief(lastOp)

clear ==
    /\ ClearCache
    /\ UNCHANGED <<max_size, pfTrace, nonCacheVars>>

prefetch(indices, outcomes) ==
    /\ cache' = PrefetchCache(cache, max_size, indices, outcomes)
    /\ lastOp' = [op |-> "prefetch", key |-> NoKey, val |-> None, ret |-> None,
                  pre |-> <<>>]
    /\ prevHit' = Brief(lastOp)
    /\ UNCHANGED <<max_size, pfTrace, nonCacheVars>>

\* prefetch, keeping what it did at each index
prefetch_traced(indices, outcomes) ==
    /\ cache' = PrefetchCache(cache, max_size, indices, outcomes)
    /\ lastOp' = [op |-> "prefetch", key |-> NoKey, val |-> None, ret |-> None,
                  pre |-> cache]
    /\ prevHit' = Brief(lastOp)
    /\ pfTrace' = [done |-> TRUE, indices |-> indices, outcomes |-> outcomes,
                   steps |-> PrefetchTrace(cache, max_size, indices, outcomes)]
    /\ UNCHANGED <<max_size, nonCacheVars>>

NextCache ==
    \/ \E k \in Keys : get(k)
    \/ \E k \in Keys, v \in Frames : put(k, v)
    \/ clear
    \/ \E indices \in IndexLists :
           \E outcomes \in OutcomeLists(Len(indices)) : prefetch(indices, outcomes)

(***************************************************************************)
(* The SER container (ser_parser.py).  A file is its size in bytes and     *)
(* the bytes of its header fields; frame data is represented by the two    *)
(* first bytes of a frame and the trailer by the eight bytes of a          *)
(* timestamp.                                                              *)
(***************************************************************************)
HEADER_SIZE == 178
\* b"LUCAM-RECORDER"
FILE_ID == <<76, 85, 67, 65, 77, 45, 82, 69, 67, 79, 82, 68, 69, 82>>
VALID_COLOR_IDS == {0, 1, 2, 3, 4, 8, 9, 16, 17, 100, 101}
VALID_PIXEL_DEPTHS == {8, 16}

Min(a, b) == IF a < b THEN a ELSE b
Max(a, b) == IF a > b THEN a ELSE b

RECURSIVE rstrip(_)
\* bytes.rstrip(b'\x00')
rstrip(b) ==
    IF b = <<>> THEN b
    ELSE IF b[Len(b)] = 0 THEN rstrip(SubSeq(b, 1, Len(b) - 1)) ELSE b

Reverse(b) == [j \in 1 .. Len(b) |-> b[Len(b) + 1 - j]]

\* struct.unpack of a 4-byte unsigned integer, e is '<' or '>'
unpack_I(e, b) ==
    LET l == IF e = "<" THEN b ELSE Reverse(b)
    IN  l[1] + 256 * l[2] + 65536 * l[3] + 16777216 * l[4]

\* struct.unpack of a 2-byte unsigned integer (numpy '<u2', '>u2')
unpack_H(e, b) ==
    LET l == IF e = "<" THEN b ELSE Reverse(b)
    IN  l[1] + 256 * l[2]

\* struct.unpack of an 8-byte unsigned integer, as its high and low 32-bit
\* words
unpack_Q(e, b) ==
    LET l == IF e = "<" THEN b ELSE Reverse(b)
    IN  <<unpack_I("<", SubSeq(l, 5, 8)), unpack_I("<", SubSeq(l, 1, 4))>>

\* the bytes a recording program writes for v in byte order e
pack_I(e, v) ==
    LET l == <<v % 256, (v \div 256) % 256, (v \div 65536) % 256, (v \div 16777216) % 256>>
    IN  IF e = "<" THEN l ELSE Reverse(l)

pack_H(e, v) ==
    LET l == <<v % 256, (v \div 256) % 256>>
    IN  IF e = "<" THEN l ELSE Reverse(l)

pack_Q(e, v) ==
    LET l == pack_I("<", v) \o <<0, 0, 0, 0>>
    IN  IF e = "<" THEN l ELSE Reverse(l)

\* file.read(n) at position offset of a file of size bytes: how many bytes
\* it returns
ReadLen(size, offset, n) == Min(n, Max(0, size - offset))

\* a plausible slip: the byte-order flag taken by its name (1 = little)
EndianCharByName(little_endian) == IF little_endian = 1 THEN "<" ELSE ">"

\* endian_char = '<' if little_endian == 0 else '>'
EndianChar(little_endian) == IF little_endian = 0 THEN "<" ELSE ">"

\* a plausible slip: the frame count is checked before the pixel depth
ValidateCountFirst(color_id, pixel_depth, frame_count) ==
    IF color_id \notin VALID_COLOR_IDS THEN "ColorID"
    ELSE IF frame_count = 0 THEN "FrameCount"
    ELSE IF pixel_depth \notin VALID_PIXEL_DEPTHS THEN "PixelDepth"
    ELSE "ok"

\* the three validations of parse_header, in their order: the field the
\* format error names, or "ok"
Validate(color_id, pixel_depth, frame_count) ==
    IF color_id \notin VALID_COLOR_IDS THEN "ColorID"
    ELSE IF pixel_depth \notin VALID_PIXEL_DEPTHS THEN "PixelDepth"
    ELSE IF frame_count = 0 THEN "FrameCount"
    ELSE "ok"

FormatError(field) == [kind |-> "error", err |-> "SERFormatError", field |-> field]

\* parse_header up to the construction of SERHeader: the header, or the
\* format error raised
ParseHeader(f) ==
    IF ReadLen(f.size, 0, HEADER_SIZE) < HEADER_SIZE
    THEN FormatError("header")
    ELSE IF rstrip(f.file_id) # FILE_ID
    THEN FormatError("FileID")
    ELSE LET little_endian == unpack_I("<", f.little_endian)
             e == EndianChar(little_endian)
             color_id == unpack_I(e, f.color_id)
             pixel_depth == unpack_I(e, f.pixel_depth)
             frame_count == unpack_I(e, f.frame_count)
             bad == Validate(color_id, pixel_depth, frame_count)
         IN  IF bad # "ok"
             THEN FormatError(bad)
             ELSE [kind |-> "header",
                   header |-> [lu_id |-> unpack_I(e, f.lu_id),
                               color_id |-> color_id,
                               little_endian |-> little_endian,
                               image_width |-> unpack_I(e, f.image_width),
                               image_height |-> unpack_I(e, f.image_height),
                               pixel_depth |-> pixel_depth,
                               frame_count |-> frame_count,
                               datetime_utc |-> unpack_Q(e, f.datetime_utc)]]

\* a plausible slip: three planes for RGB only
FrameSizeRgbOnly(h) ==
    LET planes == IF h.color_id \in {100} THEN 3 ELSE 1
        bytes_per_pixel == h.pixel_depth \div 8
    IN  h.image_width * h.image_height * bytes_per_pixel * planes

calculate_frame_size(h) ==
    LET planes == IF h.color_id \in {100, 101} THEN 3 ELSE 1
        bytes_per_pixel == h.pixel_depth \div 8
    IN  h.image_width * h.image_height * bytes_per_pixel * planes

\* a plausible slip: a trailer is assumed when the file is large enough
TrailerAtLeast(file_size, frame_count, fs) ==
    file_size >= HEADER_SIZE + frame_count * fs + frame_count * 8

\* file_size == expected_size_with_timestamps
TrailerExact(file_size, frame_count, fs) ==
    file_size = HEADER_SIZE + frame_count * fs + frame_count * 8

\* a plausible slip: the offset counted from the start of the file
FrameOffsetNoHeader(frame_index, fs) == frame_index * fs

\* offset = self.HEADER_SIZE + frame_index * self._frame_size
FrameOffset(frame_index, fs) == HEADER_SIZE + frame_index * fs

NoHeader == [none |-> TRUE]
NotParsed == [kind |-> "error", err |-> "SERError", field |-> "header"]
IndexError == [kind |-> "error", err |-> "SERIndexError", field |-> "index"]
IOError == [kind |-> "error", err |-> "SERIOError", field |-> "read"]

\* a plausible slip: only the upper end of the range is checked, as the
\* docstring words it ("If frame_index >= frame_count")
GetFrameUpperCheckOnly(f, h, fs, frame_index) ==
    IF h = NoHeader THEN NotParsed
    ELSE IF frame_index >= h.frame_count THEN IndexError
    ELSE IF ReadLen(f.size, FrameOffset(frame_index, fs), fs) < fs THEN IOError
    ELSE [kind |-> "frame", offset |-> FrameOffset(frame_index, fs),
          nbytes |-> fs, dtype |-> "u1", first |-> 0]

\* what get_frame returns or raises
GetFrame(f, h, fs, frame_index) ==
    IF h = NoHeader THEN NotParsed
    ELSE IF frame_index < 0 \/ frame_index >= h.frame_count THEN IndexError
    ELSE LET offset == FrameOffset(frame_index, fs)
             got == ReadLen(f.size, offset, fs)
             e == EndianChar(h.little_endian)
             dtype == IF h.pixel_depth = 8 THEN "u1" ELSE e \o "u2"
         IN  IF got < fs
             THEN IOError
             ELSE [kind |-> "frame", offset |-> offset, nbytes |-> got,
                   dtype |-> dtype,
                   first |-> IF fs = 0 THEN 0
                             ELSE IF h.pixel_depth = 8 THEN f.sample[1]
                             ELSE unpack_H(e, f.sample)]

\* what get_timestamp reads: None, the raw 64-bit value, or the error raised
GetTimestamp(f, h, fs, ts, frame_index) ==
    IF h = NoHeader THEN NotParsed
    ELSE IF ~ts THEN [kind |-> "none"]
    ELSE IF frame_index < 0 \/ frame_index >= h.frame_count THEN IndexError
    ELSE LET offset == HEADER_SIZE + h.frame_count * fs + frame_index * 8
             got == ReadLen(f.size, offset, 8)
             e == EndianChar(h.little_endian)
         IN  IF got < 8
             THEN IOError
             ELSE [kind |-> "timestamp", offset |-> offset, endian |-> e,
                   raw |-> unpack_Q(e, f.stamp)]

\* the seek and read calls a parser call makes on the file handle, in order:
\* [offset, n] is seek(offset) followed by read(n)
HeaderReads == <<[offset |-> 0, n |-> HEADER_SIZE]>>

\* get_frame seeks and reads after the two checks, and not before
FrameReads(h, fs, frame_index) ==
    IF h = NoHeader THEN <<>>
    ELSE IF frame_index < 0 \/ frame_index >= h.frame_count THEN <<>>
    ELSE <<[offset |-> FrameOffset(frame_index, fs), n |-> fs]>>

\* get_timestamp seeks and reads after its three checks
TimestampReads(h, fs, ts, frame_index) ==
    IF h = NoHeader THEN <<>>
    ELSE IF ~ts THEN <<>>
    ELSE IF frame_index < 0 \/ frame_index >= h.frame_count THEN <<>>
    ELSE <<[offset |-> HEADER_SIZE + h.frame_count * fs + frame_index * 8,
            n |-> 8]>>

(***************************************************************************)
(* The files the parser is opened on.  A recording program writes the      *)
(* integer fields of w in byte order w.order; the flag bytes and the file  *)
(* size are chosen independently.  The field "written" keeps w; the        *)
(* parser does not read it.                                                *)
(***************************************************************************)
Encode(w, size) ==
    [size |-> size,
     written |-> w,
     file_id |-> w.magic,
     lu_id |-> pack_I(w.order, 7),
     color_id |-> pack_I(w.order, w.color),
     little_endian |-> w.flag,
     image_width |-> pack_I(w.order, w.width),
     image_height |-> pack_I(w.order, w.height),
     pixel_depth |-> pack_I(w.order, w.depth),
     frame_count |-> pack_I(w.order, w.count),
     datetime_utc |-> pack_Q(w.order, 9),
     sample |-> IF w.depth = 8 THEN <<2, 1>> ELSE pack_H(w.order, 258),
     stamp |-> pack_Q(w.order, 11)]

MagicChoices == {FILE_ID, [FILE_ID EXCEPT ![14] = 0]}
FlagChoices == {pack_I("<", 0), pack_I("<", 1), pack_I(">", 1)}
ColorChoices == VALID_COLOR_IDS \cup {5}
FewColors == {0, 100, 5}
DepthChoices == VALID_PIXEL_DEPTHS \cup {12}

\* what a recording program can write: any choice of the fields
AllWriters ==
    [magic : MagicChoices, flag : FlagChoices, order : {"<", ">"},
     color : ColorChoices, width : 1 .. MaxWidth, height : 1 .. MaxHeight,
     depth : DepthChoices, count : 0 .. MaxCount]

\* the flag says the byte order the fields are written in
Consistent(w) ==
    /\ w.magic = FILE_ID
    /\ (w.order = "<") <=> (w.flag = pack_I("<", 0))

\* recordings whose flag fits their byte order: little-endian ones with
\* every colour identifier, big-endian ones with three of them
Recordings ==
    {w \in AllWriters :
        /\ Consistent(w)
        /\ w.order = "<" \/ w.color \in FewColors}

\* files with any magic, flag and byte order, of the smallest image
AnyHeaders ==
    {w \in AllWriters : w.color \in FewColors /\ w.width = 1 /\ w.height = 1}

\* bytes of frame data a file of w has
DataLen(w) ==
    w.count * w.width * w.height * (IF w.depth = 16 THEN 2 ELSE 1)
            * (IF w.color = 100 \/ w.color = 101 THEN 3 ELSE 1)

\* file sizes of a recording: the frames with one byte missing, the frames,
\* and the frames with a trailer of 8 bytes per frame, one byte less and
\* one byte more
SizeChoices(w) ==
    {HEADER_SIZE + DataLen(w) + d : d \in {-1, 0}}
        \cup {HEADER_SIZE + DataLen(w) + 8 * w.count + d : d \in {-1, 0, 1}}

\* file sizes of the other files: a header cut by one byte, and the frames
\* with their trailer
EndChoices(w) == {HEADER_SIZE - 1, HEADER_SIZE + DataLen(w) + 8 * w.count}

PlainWriter ==
    [magic |-> FILE_ID, flag |-> pack_I("<", 0), order |-> "<", color |-> 0,
     width |-> 1, height |-> 1, depth |-> 8, count |-> 1]

Files ==
    UNION {{Encode(w, s) : s \in SizeChoices(w)} : w \in Recordings}
        \cup UNION {{Encode(w, s) : s \in EndChoices(w)} : w \in AnyHeaders}
        \cup {Encode(PlainWriter, 0)}

(***************************************************************************)
(* Lucky imaging.  A run has n frames; frame i (from 0) has the sharpness  *)
(* score scores[i + 1].  An entry of frame_scores is [idx, score].         *)
(***************************************************************************)
\* int(x / 100.0): Python's int() cuts towards zero
IntPercent(x) == IF x >= 0 THEN x \div 100 ELSE 0 - ((0 - x) \div 100)

\* a plausible slip: no lower limit of one frame
KeepCountNoLimit(n, p) == IntPercent(n * p)

\* keep_count = max(1, int(frame_count * percentage / 100.0))
KeepCount(n, p) == Max(1, IntPercent(n * p))

\* the list built by the scoring loop, in frame order
FrameScores(scores) == [j \in 1 .. Len(scores) |-> [idx |-> j - 1, score |-> scores[j]]]

\* x put into the list l, sorted by descending score, behind every entry
\* whose score is not smaller
RECURSIVE InsertByScore(_, _)
InsertByScore(l, x) ==
    IF l = <<>> THEN <<x>>
    ELSE IF l[Len(l)].score >= x.score THEN Append(l, x)
    ELSE Append(InsertByScore(SubSeq(l, 1, Len(l) - 1), x), l[Len(l)])

\* a plausible slip: the sort without reverse=True
RECURSIVE SortByScoreAscending(_)
SortByScoreAscending(l) ==
    IF l = <<>> THEN <<>>
    ELSE LET rest == SortByScoreAscending(SubSeq(l, 1, Len(l) - 1))
             x == l[Len(l)]
             small == SelectSeq(rest, LAMBDA y : y.score <= x.score)
             large == SelectSeq(rest, LAMBDA y : y.score > x.score)
         IN  small \o <<x>> \o large

\* frame_scores.sort(key=lambda x: x[1], reverse=True): the sort is stable,
\* entries of equal score keep their order
RECURSIVE SortByScore(_)
SortByScore(l) ==
    IF l = <<>> THEN <<>>
    ELSE InsertByScore(SortByScore(SubSeq(l, 1, Len(l) - 1)), l[Len(l)])

\* l[:k]
Take(l, k) ==
    IF k >= 0 THEN SubSeq(l, 1, Min(k, Len(l)))
    ELSE SubSeq(l, 1, Max(0, Len(l) + k))

\* best_frames.sort(key=lambda x: x[0])
RECURSIVE SortByIndex(_)
SortByIndex(l) ==
    IF l = <<>> THEN <<>>
    ELSE LET rest == SortByIndex(SubSeq(l, 1, Len(l) - 1))
             x == l[Len(l)]
             before == SelectSeq(rest, LAMBDA y : y.idx <= x.idx)
             after == SelectSeq(rest, LAMBDA y : y.idx > x.idx)
         IN  before \o <<x>> \o after

\* what select_best_frames returns: the entries [idx, score] of the
\* retained frames
SelectBestFrames(scores, p) ==
    SortByIndex(Take(SortByScore(FrameScores(scores)),
                     KeepCount(Len(scores), p)))

\* the frames align_and_stack_lucky stacks: the reference, and the other
\* retained frames that align_frame_features aligned (ok[j] for best[j])
AlignedFrames(best, ok) ==
    <<best[1]>> \o SelectSeq(SubSeq(best, 2, Len(best)),
                             LAMBDA x : \E j \in 2 .. Len(best) : best[j] = x /\ ok[j])

NoEntry == [idx |-> NoKey, score |-> 0 - 1]
PercentChoices == {0 - 50, 0, 10, 50, 75, 100, 150}

\* a run before any call
FreshLucky(scores, p) ==
    lk = [n |-> Len(scores), scores |-> scores, p |-> p, op |-> "init",
          best |-> <<>>, ref |-> NoEntry, stacked |-> <<>>]

LuckyIdle == FreshLucky(<<0>>, 10)

\* LuckyImaging.select_best_frames(ser_file, percentage)
select_best_frames ==
    /\ lk' = [lk EXCEPT !.op = "select",
                        !.best = SelectBestFrames(lk.scores, lk.p),
                        !.ref = NoEntry,
                        !.stacked = <<>>]
    /\ UNCHANGED <<sourceVars, sv, st>>

\* LuckyImaging.align_and_stack_lucky(ser_file, percentage, method)
align_and_stack_lucky(ok) ==
    LET best_frames == SelectBestFrames(lk.scores, lk.p)
    IN  /\ ok \in [2 .. Len(best_frames) -> BOOLEAN]
        /\ lk' = [lk EXCEPT !.op = "stack",
                            !.best = best_frames,
                            !.ref = best_frames[1],
                            !.stacked = AlignedFrames(best_frames, ok)]
        /\ UNCHANGED <<sourceVars, sv, st>>

NextLucky ==
    \/ select_best_frames
    \/ \E ok \in UNION {[2 .. k -> BOOLEAN] : k \in 1 .. MaxFrames} :
           align_and_stack_lucky(ok)

(***************************************************************************)
(* Stacking without alignment of mono 8-bit frames that are each of one    *)
(* uniform value: a frame is its pixel value, and so is every array that   *)
(* stack_frames computes from the frames.  A float64 or float32 value is   *)
(* the fraction [num, den].                                                *)
(***************************************************************************)
\* the pixel values of dim frames, and of bright ones whose sum passes 255
PixelChoices == {10, 20, 30, 40, 50}
BrightChoices == {200, 250}
Methods == {"average", "median", "sum"}
\* np.iinfo(np.uint8).max
MaxU8 == 255

RECURSIVE SumOf(_)
SumOf(frames) ==
    IF frames = <<>> THEN 0
    ELSE SumOf(SubSeq(frames, 1, Len(frames) - 1)) + frames[Len(frames)]

\* the values in ascending order
RECURSIVE Ascending(_)
Ascending(frames) ==
    IF frames = <<>> THEN <<>>
    ELSE LET rest == Ascending(SubSeq(frames, 1, Len(frames) - 1))
             x == frames[Len(frames)]
         IN  SelectSeq(rest, LAMBDA y : y <= x) \o <<x>>
                 \o SelectSeq(rest, LAMBDA y : y > x)

\* np.median(frames, axis=0): the middle value, or the mean of the two
\* middle values
MedianOf(frames) ==
    LET a == Ascending(frames)
        n == Len(frames)
    IN  IF n % 2 = 1 THEN [num |-> a[(n + 1) \div 2], den |-> 1]
        ELSE [num |-> a[n \div 2] + a[n \div 2 + 1], den |-> 2]

\* x.astype(np.uint8) of a non-negative float: the fraction is cut; a value
\* above 255 is outside the range of the conversion, and the result is what
\* the platform makes of it, the value modulo 256 or the largest value
CastU8(x) ==
    LET t == x.num \div x.den
    IN  IF t <= MaxU8 THEN {t} ELSE {t % (MaxU8 + 1), MaxU8}

\* a plausible slip: the degenerate case scaled to the top of the range
AutoStretchToMax(x) == {MaxU8}

\* _auto_stretch(data, np.uint8) of a uniform array: both percentiles are
\* the one value, their difference is below 1e-10, and the data are
\* returned as data.astype(dtype)
AutoStretch(x) == CastU8(x)

\* the pixel values stack_frames can return, align_frames being False
StackUnaligned(frames, method, auto_stretch) ==
    IF method = "median"
    THEN IF auto_stretch THEN AutoStretch(MedianOf(frames))
         ELSE CastU8(MedianOf(frames))
    ELSE IF method = "sum"
    THEN AutoStretch([num |-> SumOf(frames), den |-> 1])
    ELSE LET averaged == [num |-> SumOf(frames), den |-> Len(frames)]
         IN  IF auto_stretch THEN AutoStretch(averaged) ELSE CastU8(averaged)

FreshValues(frames) ==
    sv = [frames |-> frames, op |-> "init", method |-> "none",
          auto_stretch |-> TRUE, out |-> 0 - 1]

ValuesIdle == FreshValues(<<10>>)


\* stack_frames(ser_file, method, None, auto_stretch, align_frames=False)
\* on a SER file
stack_frames_unaligned(method, auto_stretch) ==
    /\ \E out \in StackUnaligned(sv.frames, method, auto_stretch) :
           sv' = [sv EXCEPT !.op = "stack", !.method = method,
                            !.auto_stretch = auto_stretch, !.out = out]
    /\ UNCHANGED <<sourceVars, lk, st>>

NextValues ==
    \E method \in Methods, auto_stretch \in BOOLEAN :
        stack_frames_unaligned(method, auto_stretch)

(***************************************************************************)
(* Colour reconstruction (image_processor.py) of one 2x2 block of raw      *)
(* samples <<(0,0), (0,1), (1,0), (1,1)>>.  A scene has the colour R, G, B;*)
(* a sensor of the CYYM family reads Cy = G+B, Y = R+G (two cells) and     *)
(* Mg = R+B and stores each reading in an 8-bit cell, in the positions of  *)
(* its layout.                                                             *)
(***************************************************************************)
Patterns == {"CYYM", "YCMY", "YMCY", "MYYC"}
ChannelChoices == {0, 1, 100, 128}
\* COLOR_BAYER_RGGB .. COLOR_BAYER_BGGR
StandardBayer == {1, 2, 3, 4}
\* COLOR_BAYER_CYYM, COLOR_BAYER_YCMY, COLOR_BAYER_YMCY, COLOR_BAYER_MYYC
CyymFamily == {8, 9, 16, 17}

\* the block a sensor of the given layout stores for the colour rgb
Compose(rgb, layout) ==
    LET cy == (rgb[2] + rgb[3]) % (MaxU8 + 1)
        y == (rgb[1] + rgb[2]) % (MaxU8 + 1)
        mg == (rgb[1] + rgb[3]) % (MaxU8 + 1)
    IN  IF layout = "CYYM" THEN <<cy, y, y, mg>>
        ELSE IF layout = "YCMY" THEN <<y, cy, mg, y>>
        ELSE IF layout = "YMCY" THEN <<y, mg, cy, y>>
        ELSE <<mg, y, y, cy>>

\* the samples as the file holds them: 16-bit samples carry the reading in
\* the high byte
RawBlock(block, pixel_depth) ==
    IF pixel_depth = 16
    THEN [j \in 1 .. Len(block) |-> block[j] * 256 + 255]
    ELSE block

\* the three samples per pixel an RGB (100) or BGR (101) file stores for
\* the colour rgb, pixel after pixel
Planes(rgb, color_id) ==
    LET pixel == IF color_id = 101 THEN <<rgb[3], rgb[2], rgb[1]>> ELSE rgb
    IN  pixel \o pixel \o pixel \o pixel

\* SERParser.get_frame reshapes to (height, width, 3) for color_id 100 and
\* 101, and to (height, width) otherwise
RawFrame(rgb, layout, color_id, pixel_depth) ==
    IF color_id \in {100, 101}
    THEN RawBlock(Planes(rgb, color_id), pixel_depth)
    ELSE RawBlock(Compose(rgb, layout), pixel_depth)

\* len(data.shape) of a frame of 2 by 2 pixels, given as its samples in
\* storage order
Ndim(data) == IF Len(data) = 4 THEN 2 ELSE 3

\* normalize_16bit: (data / 256).astype(np.uint8)
normalize_16bit(data) ==
    [j \in 1 .. Len(data) |-> (data[j] \div 256) % (MaxU8 + 1)]

\* bgr_to_rgb: data[:, :, ::-1] reverses the samples of each pixel; on a
\* two-dimensional array the third index raises IndexError
bgr_to_rgb(data) ==
    IF Ndim(data) = 2
    THEN [how |-> "IndexError", px |-> <<>>]
    ELSE [how |-> "bgr_to_rgb",
          px |-> [j \in 1 .. Len(data) |->
                    data[3 * ((j - 1) \div 3) + 3 - ((j - 1) % 3)]]]

\* a plausible slip: the cells are always taken in the CYYM positions
CellsAsCyym(data, pattern) ==
    [cy |-> data[1], y1 |-> data[2], y2 |-> data[3], mg |-> data[4]]

\* the four readings of a block under a pattern; an unknown pattern is
\* read as CYYM
Cells(data, pattern) ==
    IF pattern = "YCMY"
    THEN [y1 |-> data[1], cy |-> data[2], mg |-> data[3], y2 |-> data[4]]
    ELSE IF pattern = "YMCY"
    THEN [y1 |-> data[1], mg |-> data[2], cy |-> data[3], y2 |-> data[4]]
    ELSE IF pattern = "MYYC"
    THEN [mg |-> data[1], y1 |-> data[2], y2 |-> data[3], cy |-> data[4]]
    ELSE [cy |-> data[1], y1 |-> data[2], y2 |-> data[3], mg |-> data[4]]

\* np.clip(x, 0, 255) and astype(np.uint8) of the float x = quarters / 4
ClipCast(quarters) == Min(Max(quarters, 0), 4 * MaxU8) \div 4

\* debayer_cyym: y_avg = (y1 + y2) / 2, then r = (y_avg + mg - cy) / 2,
\* g = (y_avg + cy - mg) / 2, b = (cy + mg - y_avg) / 2, clipped; a block
\* gives one colour, which the upsampling spreads over the block
debayer_cyym(data, pattern) ==
    LET c == Cells(data, pattern)
    IN  <<ClipCast(c.y1 + c.y2 + 2 * c.mg - 2 * c.cy),
          ClipCast(c.y1 + c.y2 + 2 * c.cy - 2 * c.mg),
          ClipCast(2 * c.cy + 2 * c.mg - c.y1 - c.y2)>>

\* mono_to_rgb: each sample in all three channels
mono_to_rgb(data) == [how |-> "mono_to_rgb", px |-> data]

\* debayer(data, color_id), CYYM_PATTERN being pattern
debayer(data, color_id, pattern, has_opencv) ==
    IF color_id = 8
    THEN [how |-> "debayer_cyym", px |-> debayer_cyym(data, pattern)]
    ELSE IF has_opencv /\ color_id \in StandardBayer
    THEN [how |-> "cvtColor", px |-> <<>>]
    ELSE IF color_id \in StandardBayer
    THEN [how |-> "debayer_simple", px |-> <<>>]
    ELSE mono_to_rgb(data)

\* process_frame(raw_data, color_id, pixel_depth); an unknown color_id is
\* treated as mono when the frame has two dimensions and returned as it is
\* otherwise
ProcessFrame(raw_data, color_id, pixel_depth, pattern, has_opencv) ==
    LET data == IF pixel_depth = 16 THEN normalize_16bit(raw_data) ELSE raw_data
    IN  IF color_id = 0 THEN mono_to_rgb(data)
        ELSE IF color_id \in StandardBayer \cup CyymFamily
        THEN debayer(data, color_id, pattern, has_opencv)
        ELSE IF color_id = 100 THEN [how |-> "passthrough", px |-> data]
        ELSE IF color_id = 101 THEN bgr_to_rgb(data)
        ELSE IF Ndim(data) = 2 THEN mono_to_rgb(data)
        ELSE [how |-> "passthrough", px |-> data]

NoImage == [how |-> "none", px |-> <<>>]

FreshColour(rgb, layout) ==
    cr = [rgb |-> rgb, layout |-> layout, op |-> "init", color_id |-> 0,
          pixel_depth |-> 8, pattern |-> "CYYM", has_opencv |-> FALSE,
          out |-> NoImage]

\* ImageProcessor.process_frame on the frame get_frame gives for the scene
process_frame(color_id, pixel_depth, pattern, has_opencv) ==
    /\ cr.op = "init"
    /\ cr' = [cr EXCEPT !.op = "process_frame", !.color_id = color_id,
                        !.pixel_depth = pixel_depth, !.pattern = pattern,
                        !.has_opencv = has_opencv,
                        !.out = ProcessFrame(RawFrame(cr.rgb, cr.layout,
                                                      color_id, pixel_depth),
                                             color_id, pixel_depth, pattern,
                                             has_opencv)]
    /\ UNCHANGED <<nonViewVars, al, view, pb>>

NextColour ==
    \E color_id \in VALID_COLOR_IDS, pixel_depth \in VALID_PIXEL_DEPTHS,
       pattern \in Patterns, has_opencv \in BOOLEAN :
        process_frame(color_id, pixel_depth, pattern, has_opencv)

(***************************************************************************)
(* The feature-based alignment functions, FrameAligner.align_frame_orb and *)
(* LuckyImaging.align_frame_features.  What OpenCV computes from the two   *)
(* images is the estimate est: whether both images gave descriptors and at *)
(* least 10 keypoints, the number of matches that pass the ratio test, the *)
(* matrix M of estimateAffinePartial2D (None, or its translation tx, ty in *)
(* pixels), and whether a call raised.                                     *)
(***************************************************************************)
\* if len(good_matches) < 10: return None
MinMatches == 10
NoMatrix == [none |-> TRUE]
ShiftChoices == {0 - 250, 0 - 150, 0, 150, 200, 201, 250}
\* max_shift: the default of align_frame_orb, and that of align_frame_simple
MaxShiftChoices == {100, 200}
Failure == "None"
Aligned == "aligned"

Abs(x) == IF x < 0 THEN 0 - x ELSE x

Estimates ==
    [features : BOOLEAN, good : {MinMatches - 1, MinMatches},
     M : {NoMatrix} \cup [tx : ShiftChoices, ty : ShiftChoices],
     raises : BOOLEAN]

\* FrameAligner.align_frame_orb(reference, frame, max_shift)
AlignOrb(est, max_shift) ==
    IF est.raises THEN Failure
    ELSE IF ~est.features THEN Failure
    ELSE IF est.good < MinMatches THEN Failure
    ELSE IF est.M = NoMatrix THEN Failure
    ELSE IF Abs(est.M.tx) > max_shift \/ Abs(est.M.ty) > max_shift THEN Failure
    ELSE Aligned

\* LuckyImaging.align_frame_features(reference, frame)
AlignFeatures(est) ==
    IF est.raises THEN Failure
    ELSE IF ~est.features THEN Failure
    ELSE IF est.good < MinMatches THEN Failure
    ELSE IF est.M = NoMatrix THEN Failure
    ELSE Aligned

FreshAlignment(est, max_shift) ==
    al = [est |-> est, max_shift |-> max_shift, op |-> "init", out |-> Failure]

align_frame_orb ==
    /\ al.op = "init"
    /\ al' = [al EXCEPT !.op = "align_frame_orb",
                        !.out = AlignOrb(al.est, al.max_shift)]
    /\ UNCHANGED <<nonViewVars, cr, view, pb>>

align_frame_features ==
    /\ al.op = "init"
    /\ al' = [al EXCEPT !.op = "align_frame_features",
                        !.out = AlignFeatures(al.est)]
    /\ UNCHANGED <<nonViewVars, cr, view, pb>>

NextAlign == align_frame_orb \/ align_frame_features

NoAlignment ==
    [est |-> [features |-> FALSE, good |-> MinMatches, M |-> NoMatrix,
              raises |-> FALSE],
     max_shift |-> 200, op |-> "init", out |-> Failure]

(***************************************************************************)
(* The main window: the open VideoFile with its cache of reconstructed     *)
(* frames, ImageProcessor.CYYM_PATTERN, which is one per process, the      *)
(* NavigationController and the PlaybackController of the file, the timers *)
(* that MainWindow._schedule_timer has started                             *)
(* (QTimer.singleShot(interval_ms, self._advance_frame)), and the modal    *)
(* boxes that are open.  Frame i of a file shows a scene of colour         *)
(* SceneOf(i) through the sensor of the file.  A handler runs as one step  *)
(* up to the point where it opens a modal box and waits in it; while a     *)
(* box is open only timers fire.  Boxes after which a handler changes      *)
(* nothing more ("Error Loading File", "Pattern Changed") are no steps of  *)
(* their own.                                                              *)
(***************************************************************************)
\* VideoFile.__init__(file_path, cache_size=10)
ViewCacheSize == 10
ViewFrames == {0, 1, 2}
SceneOf(i) == <<100, i, 128>>

CAMERA_CYYM_PATTERNS ==
    [c \in {"ZWO ASI183MC", "ZWO ASI183MM", "ZWO ASI294MC", "ZWO ASI533MC",
            "ZWO ASI678MC"} |-> "YCMY"]

Instruments == {"", "ZWO ASI183MC", "zwo asi294mc pro", "QHY5III678C"}

\* the camera names that instrument.upper() contains
NamesIn(instrument) ==
    IF instrument = "ZWO ASI183MC" THEN {"ZWO ASI183MC"}
    ELSE IF instrument = "zwo asi294mc pro" THEN {"ZWO ASI294MC"}
    ELSE {}

\* ImageProcessor.detect_cyym_pattern
detect_cyym_pattern(instrument) ==
    IF instrument = "" THEN "CYYM"
    ELSE IF instrument \in DOMAIN CAMERA_CYYM_PATTERNS
    THEN CAMERA_CYYM_PATTERNS[instrument]
    ELSE IF NamesIn(instrument) # {}
    THEN CAMERA_CYYM_PATTERNS[CHOOSE c \in NamesIn(instrument) : TRUE]
    ELSE "CYYM"

\* the files the window is given: file_type as VideoFile sets it from the
\* extension, the header fields (those of an AVI or MP4 file are made by
\* AVIHeader for a colour video), and the layout of the sensor that
\* recorded a SER file
ViewFiles ==
    {[name |-> "a.ser", file_type |-> "SER", color_id |-> 8, pixel_depth |-> 8,
      instrument |-> "ZWO ASI183MC", layout |-> "YCMY", frame_count |-> 2],
     [name |-> "b.ser", file_type |-> "SER", color_id |-> 8, pixel_depth |-> 16,
      instrument |-> "QHY5III678C", layout |-> "MYYC", frame_count |-> 2],
     [name |-> "c.ser", file_type |-> "SER", color_id |-> 8, pixel_depth |-> 8,
      instrument |-> "zwo asi294mc pro", layout |-> "YCMY",
      frame_count |-> 2],
     [name |-> "d.ser", file_type |-> "SER", color_id |-> 0, pixel_depth |-> 8,
      instrument |-> "", layout |-> "CYYM", frame_count |-> 1],
     [name |-> "e.ser", file_type |-> "SER", color_id |-> 1, pixel_depth |-> 8,
      instrument |-> "ZWO ASI183MC", layout |-> "CYYM", frame_count |-> 3],
     [name |-> "m.avi", file_type |-> "AVI", color_id |-> 100,
      pixel_depth |-> 8, instrument |-> "AVI Video", layout |-> "CYYM",
      frame_count |-> 2]}

\* a mono SER file of n frames
MonoFile(name, n) ==
    [name |-> name, file_type |-> "SER", color_id |-> 0, pixel_depth |-> 8,
     instrument |-> "", layout |-> "CYYM", frame_count |-> n]

\* a colour video of n frames
VideoOf(name, file_type, n) ==
    [name |-> name, file_type |-> file_type, color_id |-> 100,
     pixel_depth |-> 8, instrument |-> "AVI Video", layout |-> "CYYM",
     frame_count |-> n]

\* "cancelled" in str(e).lower(), for a text that holds the path of the PNG:
\* the path starts with the base name of the source file
HoldsCancelled(name) == name \in {"moon_Cancelled.ser", "CANCELLED.avi"}

\* self.ser_file = None
NoFile ==
    [name |-> "none", file_type |-> "SER", color_id |-> 0, pixel_depth |-> 8,
     instrument |-> "", layout |-> "CYYM", frame_count |-> 0]

NoShown == [i |-> NoKey, hit |-> FALSE, image |-> NoImage]

\* what get_display_frame makes of frame i of the open file: for a SER
\* file process_frame of parser.get_frame(i) under the present value of
\* CYYM_PATTERN, for an AVI or MP4 file the frame as AVIParser returns it,
\* which is in RGB order already
Reconstruct(v, i) ==
    IF v.file.file_type = "SER"
    THEN ProcessFrame(RawFrame(SceneOf(i), v.file.layout, v.file.color_id,
                               v.file.pixel_depth),
                      v.file.color_id, v.file.pixel_depth, v.CYYM_PATTERN,
                      v.has_opencv)
    ELSE [how |-> "raw_frame", px |-> SceneOf(i)]

\* parser.get_frame(i) returns: the parser is open and i is a frame of the
\* file
Readable(v, i) == ~v.closed /\ 0 <= i /\ i < v.file.frame_count

\* VideoFile.get_display_frame(i); shown is what the call returned, and
\* NoImage when get_frame raised, as it does on a closed parser and for an
\* index outside the file
GetDisplayFrame(v, i) ==
    IF i \in KeysOf(v.entries)
    THEN [v EXCEPT !.entries = GetCache(@, i),
                   !.shown = [i |-> i, hit |-> TRUE,
                              image |-> GetRet(v.entries, i)]]
    ELSE IF ~Readable(v, i)
    THEN [v EXCEPT !.shown = [i |-> i, hit |-> FALSE, image |-> NoImage]]
    ELSE [v EXCEPT !.entries = PutCache(@, ViewCacheSize, i, Reconstruct(v, i)),
                   !.shown = [i |-> i, hit |-> FALSE,
                              image |-> Reconstruct(v, i)]]

\* slider is the value of frame_slider, whose range is 0 .. 0 until a file
\* is loaded.  boxes are the open "Display Error" boxes, the latest last:
\* for each the caller that waits for it to be closed (NoKey: a handler
\* that does nothing more; 0: _advance_frame of the present controller;
\* k: _advance_frame of the k-th earlier controller).  shown is what the
\* latest handler displayed last, and NoShown when it displayed nothing.
NoView ==
    [file |-> NoFile, closed |-> FALSE, CYYM_PATTERN |-> "CYYM",
     has_opencv |-> TRUE, entries |-> <<>>, slider |-> 0, shown |-> NoShown,
     boxes |-> <<>>]

NoRequest == [at |-> NoKey, indices |-> {}]

\* PlaybackController.__init__ on NavigationController(total_frames, ...):
\* prefetch_callback is the argument (None by default), timer_callback is
\* None.  timers is the number of timers started for the controller that
\* have not fired yet.  old are the controllers of files loaded earlier
\* for which timers are still pending.
FreshPlayback(total, prefetch_callback) ==
    [total |-> total, current |-> 0, is_playing |-> FALSE, fps |-> 30,
     prefetch_callback |-> prefetch_callback, timer_callback |-> FALSE,
     timers |-> 0, interval_ms |-> 0, request |-> NoRequest, op |-> "init",
     old |-> <<>>]

\* PlaybackController.set_timer_callback
SetTimerCallback(p) == [p EXCEPT !.timer_callback = TRUE]

\* self.nav_controller = None, self.playback_controller = None
NoPlayback == FreshPlayback(0, FALSE)

\* the modal boxes of _stack_and_save
ModalSteps == {"warning", "question", "enhance", "inform", "critical"}

\* the window takes the user's input: no handler is running and no modal
\* box is open
Interactive == st.pc \in {"idle", "ended"} /\ view.boxes = <<>>

\* an event loop is running, that of the application or that of a modal
\* box: timers fire
Looping == st.pc \in {"idle", "ended"} \cup ModalSteps

\* the window and its controllers as a handler finds them; reads counts
\* the calls of parser.get_frame that return during the handler
Gui == [v |-> [view EXCEPT !.shown = NoShown], p |-> pb, reads |-> 0]

\* the controller a timer belongs to: the present one, or an earlier one
Ctl(p, who) == IF who = 0 THEN p ELSE p.old[who]

WithCtl(p, who, c) == IF who = 0 THEN c ELSE [p EXCEPT !.old[who] = c]

\* NavigationController.next_frame
NavNextFrame(p) ==
    IF p.current < p.total - 1 THEN [p EXCEPT !.current = @ + 1] ELSE p

\* NavigationController.previous_frame
NavPreviousFrame(p) ==
    IF p.current > 0 THEN [p EXCEPT !.current = @ - 1] ELSE p

\* NavigationController.first_frame
NavFirstFrame(p) == [p EXCEPT !.current = 0]

\* NavigationController.last_frame
NavLastFrame(p) == [p EXCEPT !.current = p.total - 1]

\* NavigationController.goto_frame
NavGotoFrame(p, frame_index) ==
    IF 0 <= frame_index /\ frame_index < p.total
    THEN [p EXCEPT !.current = frame_index]
    ELSE p

\* _display_current_frame, called through _on_frame_changed or directly:
\* the current frame of the present NavigationController is shown and the
\* slider is set to it with its signals blocked; when get_display_frame
\* raises, the slider is left as it is and the box "Display Error" opens,
\* in which the caller who waits
DisplayCurrentFrame(g, who) ==
    IF g.v.file = NoFile THEN g
    ELSE LET w == GetDisplayFrame(g.v, g.p.current)
         IN  IF w.shown.image = NoImage
             THEN [g EXCEPT !.v = [w EXCEPT !.boxes = Append(@, who)]]
             ELSE [g EXCEPT !.v = [w EXCEPT !.slider = g.p.current],
                            !.reads = IF w.shown.hit THEN @ ELSE @ + 1]

\* a plausible slip: the cache is not cleared when the pattern changes
SelectPatternKeepCache(g, pattern) ==
    LET h == [g EXCEPT !.v.CYYM_PATTERN = pattern]
    IN  IF h.v.file # NoFile THEN DisplayCurrentFrame(h, NoKey) ELSE h

\* _select_cyym_pattern once the dialog is accepted
SelectPattern(g, pattern) ==
    LET h == [g EXCEPT !.v.CYYM_PATTERN = pattern]
    IN  IF h.v.file # NoFile
        THEN DisplayCurrentFrame([h EXCEPT !.v.entries = <<>>], NoKey)
        ELSE h

\* a controller that still advances when its timers fire
Live(c) == c.is_playing /\ c.timers > 0

\* the controllers that _load_file replaces and that go on by their
\* timers: those of earlier files, and the one of the file being closed
Orphaned(p) ==
    SelectSeq(p.old, Live) \o
        (IF Live(p)
         THEN <<[p EXCEPT !.old = <<>>, !.request = NoRequest,
                          !.interval_ms = 0, !.op = "init"]>>
         ELSE <<>>)

\* _load_file(file_path) when the file opens: the previous file is closed, a
\* VideoFile with an empty cache is made, the pattern of a CYYM file is
\* detected, a NavigationController and a PlaybackController are made for
\* the frames of the file, and the current frame is displayed.
\* frame_slider.setMaximum brings a slider value beyond the new file back
\* to its last frame and emits valueChanged for it, which
\* _on_slider_changed takes to the new controller: that frame is displayed
\* first, and is the current frame from then on.
LoadFile(g, f) ==
    LET last == f.frame_count - 1
        h == [g EXCEPT
                !.v = [@ EXCEPT
                         !.file = f, !.closed = FALSE, !.entries = <<>>,
                         !.CYYM_PATTERN =
                             IF f.color_id = 8
                             THEN detect_cyym_pattern(f.instrument)
                             ELSE @],
                !.p = [SetTimerCallback(FreshPlayback(f.frame_count, TRUE))
                         EXCEPT !.old = Orphaned(g.p)]]
    IN  IF g.v.slider > last
        THEN DisplayCurrentFrame(
                 DisplayCurrentFrame([h EXCEPT !.v.slider = last,
                                               !.p = NavGotoFrame(@, last)],
                                     NoKey),
                 NoKey)
        ELSE DisplayCurrentFrame(h, NoKey)

load_file(f) ==
    /\ Interactive
    /\ LET g == LoadFile(Gui, f)
       IN  /\ view' = g.v
           /\ pb' = g.p
    /\ UNCHANGED <<nonViewVars, cr, al>>

\* _load_file(file_path) when SERFile(file_path) raises: the previous file
\* has been closed and stays in self.ser_file, with its controllers
load_file_fails ==
    /\ Interactive
    /\ view.file # NoFile
    /\ view' = [view EXCEPT !.closed = TRUE, !.entries = <<>>,
                            !.shown = NoShown]
    /\ UNCHANGED <<nonViewVars, cr, al, pb>>

\* _select_cyym_pattern: the user picks a pattern, or cancels the dialog
select_cyym_pattern(pattern, ok) ==
    /\ Interactive
    /\ LET g == IF ok THEN SelectPattern(Gui, pattern) ELSE Gui
       IN  view' = g.v
    /\ UNCHANGED <<nonViewVars, cr, al, pb>>

\* a call of the NavigationController followed, when it calls
\* frame_callback, by _on_frame_changed
Navigate(g, p, called) ==
    IF called THEN DisplayCurrentFrame([g EXCEPT !.p = p], NoKey) ELSE g

\* NavigationController.goto_frame(frame_index), as _on_slider_changed
\* calls it
goto_frame(frame_index) ==
    /\ Interactive
    /\ view.file # NoFile
    /\ LET g == Navigate(Gui, NavGotoFrame(pb, frame_index),
                         0 <= frame_index /\ frame_index < pb.total)
       IN  /\ view' = g.v
           /\ pb' = g.p
    /\ UNCHANGED <<nonViewVars, cr, al>>

\* the user moves frame_slider, whose range is that of the file loaded
\* last, to another value: valueChanged, _on_slider_changed, goto_frame
on_slider_changed(value) ==
    /\ Interactive
    /\ view.file # NoFile
    /\ 0 <= value /\ value < view.file.frame_count
    /\ value # view.slider
    /\ LET g == Navigate([Gui EXCEPT !.v.slider = value],
                         NavGotoFrame(pb, value),
                         0 <= value /\ value < pb.total)
       IN  /\ view' = g.v
           /\ pb' = g.p
    /\ UNCHANGED <<nonViewVars, cr, al>>

\* _on_first_frame: first_frame always calls frame_callback
on_first_frame ==
    /\ Interactive
    /\ view.file # NoFile
    /\ LET g == Navigate(Gui, NavFirstFrame(pb), TRUE)
       IN  /\ view' = g.v
           /\ pb' = g.p
    /\ UNCHANGED <<nonViewVars, cr, al>>

\* _on_previous_frame
on_previous_frame ==
    /\ Interactive
    /\ view.file # NoFile
    /\ LET g == Navigate(Gui, NavPreviousFrame(pb), pb.current > 0)
       IN  /\ view' = g.v
           /\ pb' = g.p
    /\ UNCHANGED <<nonViewVars, cr, al>>

\* _on_next_frame
on_next_frame ==
    /\ Interactive
    /\ view.file # NoFile
    /\ LET g == Navigate(Gui, NavNextFrame(pb), pb.current < pb.total - 1)
       IN  /\ view' = g.v
           /\ pb' = g.p
    /\ UNCHANGED <<nonViewVars, cr, al>>

\* _on_last_frame: last_frame always calls frame_callback
on_last_frame ==
    /\ Interactive
    /\ view.file # NoFile
    /\ LET g == Navigate(Gui, NavLastFrame(pb), TRUE)
       IN  /\ view' = g.v
           /\ pb' = g.p
    /\ UNCHANGED <<nonViewVars, cr, al>>

RECURSIVE PrefetchFrames(_, _, _)
\* VideoFile.prefetch_frames: the loop of FrameCache.prefetch on the cache c
\* with fetch_func, which raises on a closed parser and for an index
\* outside the file
PrefetchFrames(v, c, indices) ==
    IF indices = <<>> THEN c
    ELSE LET k == Head(indices)
         IN  IF k \notin KeysOf(c) /\ Readable(v, k)
             THEN PrefetchFrames(v, PutCache(c, ViewCacheSize, k,
                                             Reconstruct(v, k)),
                                 Tail(indices))
             ELSE PrefetchFrames(v, c, Tail(indices))

RECURSIVE PrefetchReads(_, _, _)
\* the calls of parser.get_frame that return during that loop
PrefetchReads(v, c, indices) ==
    IF indices = <<>> THEN 0
    ELSE LET k == Head(indices)
         IN  IF k \notin KeysOf(c) /\ Readable(v, k)
             THEN 1 + PrefetchReads(v, PutCache(c, ViewCacheSize, k,
                                                Reconstruct(v, k)),
                                    Tail(indices))
             ELSE PrefetchReads(v, c, Tail(indices))

\* VideoFile.prefetch_frames(frame_indices)
prefetch_frames(indices) ==
    /\ Interactive
    /\ view.file # NoFile
    /\ view' = [view EXCEPT
                  !.entries = PrefetchFrames(view, @, indices),
                  !.shown = NoShown]
    /\ UNCHANGED <<nonViewVars, cr, al, pb>>

(***************************************************************************)
(* Playback.                                                               *)
(***************************************************************************)
\* files of 1 .. MaxTotal frames
MaxTotal == 7
\* no more than MaxTimers timers are left pending at a time
MaxTimers == 2
\* no more than MaxOld earlier controllers go on at a time
MaxOld == 1
\* in SpecView a controller has no more than ViewTimers timers pending
ViewTimers == 1
\* range(current + 1, min(current + 6, total))
PrefetchWindow == 6
\* self.fps = 30, and a rate that play or set_frame_rate may be given
FpsChoices == {15, 30}

\* the indices _advance_frame asks to prefetch
PrefetchIndices(current, total) ==
    (current + 1) .. (Min(current + PrefetchWindow, total) - 1)

\* the list of them, in rising order
PrefetchList(current, total) ==
    [j \in 1 .. Cardinality(PrefetchIndices(current, total)) |-> current + j]

\* the prefetch_callback of the controller who: for the present controller
\* prefetch_frames of the file in self.ser_file; for an earlier one
\* prefetch_frames of the file that _load_file has closed, whose cache is
\* empty and whose fetch_func raises for every index
Prefetch(g, who) ==
    LET c == Ctl(g.p, who)
        indices == PrefetchList(c.current, c.total)
        q == [c EXCEPT !.request =
                 [at |-> c.current,
                  indices |-> PrefetchIndices(c.current, c.total)]]
    IN  IF who = 0
        THEN [g EXCEPT
                !.v.entries = PrefetchFrames(g.v, @, indices),
                !.reads = @ + PrefetchReads(g.v, g.v.entries, indices),
                !.p = q]
        ELSE g

\* PlaybackController.pause
Pause(p) == [p EXCEPT !.is_playing = FALSE]

\* the end of _advance_frame: the next call is scheduled when the playback
\* is still on
Schedule(p, who) ==
    LET c == Ctl(p, who)
    IN  IF c.timer_callback /\ c.is_playing
        THEN WithCtl(p, who, [c EXCEPT !.timers = @ + 1,
                                       !.interval_ms = 1000 \div c.fps])
        ELSE p

\* PlaybackController._advance_frame of the controller who.  next_frame
\* runs _on_frame_changed; when the display fails, _advance_frame waits in
\* the box "Display Error" and schedules the next call once the box is
\* closed.
AdvanceFrame(g, who) ==
    LET c == Ctl(g.p, who)
    IN  IF ~c.is_playing THEN g
        ELSE LET g1 == IF /\ c.prefetch_callback
                          /\ PrefetchIndices(c.current, c.total) # {}
                       THEN Prefetch(g, who)
                       ELSE g
             IN  IF c.current < c.total - 1
                 THEN LET g2 == DisplayCurrentFrame(
                                    [g1 EXCEPT !.p =
                                        WithCtl(@, who,
                                                NavNextFrame(Ctl(@, who)))],
                                    who)
                      IN  IF Len(g2.v.boxes) > Len(g.v.boxes) THEN g2
                          ELSE [g2 EXCEPT !.p = Schedule(@, who)]
                 ELSE [g1 EXCEPT !.p =
                          WithCtl(@, who, Pause(Ctl(@, who)))]

\* a plausible slip: the end of the file is not noticed
PlayNoAdvance(g, fps) ==
    [g EXCEPT !.p.fps = fps, !.p.is_playing = TRUE]

\* PlaybackController.play(fps)
Play(g, fps) ==
    AdvanceFrame([g EXCEPT !.p.fps = fps, !.p.is_playing = TRUE], 0)

play(fps) ==
    /\ Interactive
    /\ view.file # NoFile
    /\ LET g == Play(Gui, fps)
       IN  /\ view' = g.v
           /\ pb' = [g.p EXCEPT !.op = "play"]
    /\ UNCHANGED <<nonViewVars, cr, al>>

pause ==
    /\ Interactive
    /\ view.file # NoFile
    /\ view' = Gui.v
    /\ pb' = [Pause(pb) EXCEPT !.op = "pause"]
    /\ UNCHANGED <<nonViewVars, cr, al>>

\* _on_play_pause: PlaybackController.toggle_play_pause
toggle_play_pause ==
    /\ Interactive
    /\ view.file # NoFile
    /\ LET g == IF pb.is_playing THEN [Gui EXCEPT !.p = Pause(@)]
                ELSE Play(Gui, pb.fps)
       IN  /\ view' = g.v
           /\ pb' = [g.p EXCEPT !.op = "toggle_play_pause"]
    /\ UNCHANGED <<nonViewVars, cr, al>>

\* PlaybackController.stop: first_frame displays frame 0
stop ==
    /\ Interactive
    /\ view.file # NoFile
    /\ LET g == Navigate(Gui, NavFirstFrame(Pause(pb)), TRUE)
       IN  /\ view' = g.v
           /\ pb' = [g.p EXCEPT !.op = "stop"]
    /\ UNCHANGED <<nonViewVars, cr, al>>

\* PlaybackController.set_frame_rate(fps)
set_frame_rate(fps) ==
    /\ Interactive
    /\ view.file # NoFile
    /\ view' = Gui.v
    /\ pb' = [pb EXCEPT !.fps = fps, !.op = "set_frame_rate"]
    /\ UNCHANGED <<nonViewVars, cr, al>>

\* one of the pending timers of the controller who fires and calls its
\* _advance_frame
TimerFires(g, who) ==
    AdvanceFrame([g EXCEPT !.p = WithCtl(@, who,
                                         [Ctl(@, who) EXCEPT !.timers = @ - 1])],
                 who)

\* what a timer that fires while _stack_and_save waits in one of its boxes
\* adds to the frames read during the handler
Counted(s, reads) ==
    IF s.pc \in ModalSteps
    THEN [s EXCEPT !.decoded = @ + reads, !.played = @ + 1]
    ELSE s

\* a timer of the present controller fires
timer_fires ==
    /\ Looping
    /\ pb.timers > 0
    /\ LET g == TimerFires(Gui, 0)
       IN  /\ view' = g.v
           /\ pb' = [g.p EXCEPT !.op = "timer"]
           /\ st' = Counted(st, g.reads)
    /\ UNCHANGED <<cacheVars, parserVars, openVars, lk, sv, cr, al>>

\* an earlier controller that has stopped has no effect any more; it is
\* forgotten unless an _advance_frame of an earlier controller waits in a box
Tidy(p, boxes) ==
    IF \A j \in 1 .. Len(boxes) : boxes[j] <= 0
    THEN [p EXCEPT !.old = SelectSeq(@, Live)]
    ELSE p

\* a timer of an earlier controller fires
old_timer_fires(who) ==
    /\ Looping
    /\ who \in 1 .. Len(pb.old)
    /\ pb.old[who].timers > 0
    /\ LET g == TimerFires(Gui, who)
       IN  /\ view' = g.v
           /\ pb' = Tidy(g.p, g.v.boxes)
           /\ st' = Counted(st, g.reads)
    /\ UNCHANGED <<cacheVars, parserVars, openVars, lk, sv, cr, al>>

\* the user closes the latest "Display Error" box; the _advance_frame that
\* waited in it goes on
display_error_closed ==
    /\ view.boxes # <<>>
    /\ LET who == view.boxes[Len(view.boxes)]
       IN  /\ view' = [view EXCEPT !.boxes = SubSeq(@, 1, Len(@) - 1),
                                   !.shown = NoShown]
           /\ pb' = IF who = NoKey THEN pb ELSE Schedule(pb, who)
    /\ UNCHANGED <<nonViewVars, cr, al>>

\* the files of the window in SpecView
NextView ==
    \/ \E f \in ViewFiles :
           Len(Orphaned(pb)) <= MaxOld /\ load_file(f)
    \/ load_file_fails
    \/ \E pattern \in Patterns, ok \in BOOLEAN :
           select_cyym_pattern(pattern, ok)
    \/ \E i \in {NoKey} \cup ViewFrames : goto_frame(i)
    \/ \E i \in ViewFrames : on_slider_changed(i)
    \/ on_first_frame
    \/ on_previous_frame
    \/ on_next_frame
    \/ on_last_frame
    \/ \E indices \in SeqsUpTo(ViewFrames, MaxPrefetch) :
           prefetch_frames(indices)
    \/ pb.timers < ViewTimers /\ toggle_play_pause
    \/ timer_fires
    \/ \E who \in 1 .. MaxOld : old_timer_fires(who)
    \/ display_error_closed

\* the controller of a file of the window
NextPlayback ==
    \/ \E total \in 1 .. MaxTotal :
           view.file = NoFile /\ load_file(MonoFile("p.ser", total))
    \/ \E fps \in FpsChoices : pb.timers < MaxTimers /\ play(fps)
    \/ pause
    \/ pb.timers < MaxTimers /\ toggle_play_pause
    \/ stop
    \/ \E fps \in FpsChoices : set_frame_rate(fps)
    \/ timer_fires

\* playback that nobody pauses or stops
NextPlaying ==
    \/ \E total \in 1 .. MaxTotal :
           view.file = NoFile /\ load_file(MonoFile("p.ser", total))
    \/ \E fps \in FpsChoices : pb.timers < MaxTimers /\ play(fps)
    \/ ~pb.is_playing /\ toggle_play_pause
    \/ timer_fires

(***************************************************************************)
(* The course of one stacking operation on the file of the window:         *)
(* MainWindow._stack_and_save calls stack_frames with the callback         *)
(* update_progress, which raises when the user has cancelled.  A step runs *)
(* the code up to and including the next call of the callback, or the next *)
(* modal box; its outcome says whether a frame could not be read           *)
(* ("ioerror"), the callback raised ("cancel"), a file could not be        *)
(* written, or none of these ("ok").  decoded counts the get_frame calls   *)
(* that returned while the handler ran, inside of them those made within   *)
(* stack_frames.                                                           *)
(***************************************************************************)
\* a source long enough for lucky stacking to retain two frames
LongCount == 20
\* during one stacking operation no more than MaxPlayed timers fire
MaxPlayed == 1
\* percentage=10.0, "Keep best 10% of frames"
LuckyPercentage == 10

\* the files that are stacked in SpecStack
StackFiles ==
    {MonoFile("s.ser", 3), MonoFile("moon_Cancelled.ser", 2),
     VideoOf("m.avi", "AVI", 2), VideoOf("l.mp4", "MP4", LongCount)}

NoException == [type |-> "none", cancelled |-> FALSE]
\* raise Exception("Stacking cancelled by user")
CancelException == [type |-> "Exception", cancelled |-> TRUE]
\* SERIOError("Error reading frame ...") and the like, from SERParser
ReadException == [type |-> "SERIOError", cancelled |-> FALSE]
\* self._file_handle.seek on the handle that SERParser.close has set to None
ClosedException == [type |-> "AttributeError", cancelled |-> FALSE]
\* Exception("Failed to read frame ..."), from AVIParser, also after
\* AVIParser.close has released the capture
AviReadException == [type |-> "Exception", cancelled |-> FALSE]
\* what get_frame raises for an unreadable frame of a source
ReadFailure(file_type, closed) ==
    IF file_type # "SER" THEN AviReadException
    ELSE IF closed THEN ClosedException
    ELSE ReadException
\* the OSError of Image.save.  When the file cannot be opened its text
\* holds the path of the PNG, which starts with the base name of the source
\* file; when writing fails (no space left) it holds no path.
SaveException(name_cancelled, holds_path) ==
    [type |-> "OSError", cancelled |-> name_cancelled /\ holds_path]
\* the OSError of os.makedirs(save_dir)
DirException == [type |-> "OSError", cancelled |-> FALSE]

\* quality_threshold: 0.0 by default ("use all frames"), or a stricter one
QualityThresholds == {0, 1}
\* calculate_quality_score: the Laplacian variance, never negative
QualityChoices == {0, 1}

\* what the aligned loop did with its latest frame
NoFrame ==
    [read |-> FALSE, i |-> 0, ecc |-> FALSE, orb_attempted |-> FALSE,
     orb |-> FALSE, scored |-> FALSE, quality |-> 0, incorporated |-> FALSE]

\* name_cancelled: the name of the source file holds "cancelled", in
\* whatever case.  played: the timers that fired while the handler ran.
NoStacking ==
    [pc |-> "idle", file_type |-> "SER", method |-> "average", align |-> TRUE,
     quality_threshold |-> 0, last |-> NoFrame, name_cancelled |-> FALSE,
     n |-> 1, delegated |-> FALSE, percentage |-> 0, keep |-> 0, i |-> 0,
     decoded |-> 0, inside |-> 0, played |-> 0, used |-> 0, loops |-> {},
     progress |-> <<>>,
     signalled |-> FALSE, atSignal |-> [decoded |-> 0, used |-> 0],
     exc |-> NoException, result |-> "none", saved |-> FALSE,
     enhanced |-> FALSE, end |-> "none"]

StackIdle == st = NoStacking

PipelineIdle == LuckyIdle /\ ValuesIdle /\ StackIdle

\* what the stacking steps leave alone
stackFrame == <<cacheVars, parserVars, openVars, lk, sv, cr, al>>

\* the except clause of _stack_and_save: an exception whose text holds
\* "cancelled" is a cancellation, any other is reported as an error in the
\* box "Stacking Error"
Raised(s, exc) ==
    IF exc.cancelled
    THEN [s EXCEPT !.pc = "ended", !.exc = exc, !.end = "cancelled"]
    ELSE [s EXCEPT !.pc = "critical", !.exc = exc, !.end = "error"]

\* an exception raised before the try statement of _stack_and_save leaves
\* the handler
Escaped(s, exc) == [s EXCEPT !.pc = "ended", !.exc = exc, !.end = "escaped"]

\* parser.get_frame raises: the parser is closed, or the read fails
Unreadable(v, outcome) == v.closed \/ outcome = "ioerror"

\* each timer that fires in one call of processEvents was pending when the
\* call began
Pending(p, fired) ==
    /\ \A j \in 1 .. Len(fired) : fired[j] \in 0 .. Len(p.old)
    /\ \A who \in 0 .. Len(p.old) :
          Cardinality({j \in 1 .. Len(fired) : fired[j] = who})
              <= Ctl(p, who).timers

RECURSIVE ProcessEvents(_, _)
\* QCoreApplication.processEvents, which progress.setValue calls for the
\* window-modal progress dialog: the timers `fired` fire one after the
\* other.  The frames are readable whenever the callback runs, so that no
\* display fails inside it.
ProcessEvents(g, fired) ==
    IF fired = <<>> THEN g
    ELSE ProcessEvents(TimerFires(g, Head(fired)), Tail(fired))

\* progress_callback(current, total): update_progress sets the value of
\* the progress dialog, which lets the pending events run and leaves the
\* window as g, and raises when the dialog was cancelled; the exception
\* leaves stack_frames
Callback(s, current, total, outcome, fired, g) ==
    LET t == [s EXCEPT !.progress = Append(@, <<current, total>>),
                       !.decoded = @ + g.reads,
                       !.played = @ + Len(fired)]
    IN  IF outcome = "cancel"
        THEN Raised([t EXCEPT !.signalled = TRUE,
                              !.atSignal = [decoded |-> t.decoded,
                                            used |-> t.used]],
                    CancelException)
        ELSE t

\* a plausible slip: only AVI files are delegated
DelegatesAviOnly(file_type) == file_type = "AVI"

\* hasattr(ser_file, 'file_type') and ser_file.file_type in ['AVI', 'MP4']
Delegates(file_type) == file_type \in {"AVI", "MP4"}

\* what the rest of the handler up to the first loop can come to: the
\* directory of the images cannot be made ("oserror"), frame 0 cannot be
\* read by stack_frames, the first callback raises
StartOutcomes(s) ==
    {"oserror"} \cup
        (IF Delegates(s.file_type) THEN {"ok"}
         ELSE IF s.align THEN {"ok", "cancel", "ioerror"}
         ELSE {"ok", "ioerror"})

\* the handler reaches the first call of the callback before its first loop
StartCalls(s, v, outcome) ==
    /\ outcome # "oserror"
    /\ ~Delegates(s.file_type)
    /\ ~Unreadable(v, outcome)
    /\ s.align

\* _stack_and_save from os.makedirs, which is before the try statement, to
\* the first loop of stack_frames
Start(s, v, outcome, fired, g) ==
    IF outcome = "oserror" THEN Escaped(s, DirException)
    ELSE IF Delegates(s.file_type)
    THEN [s EXCEPT !.pc = "score", !.delegated = TRUE,
                   !.percentage = LuckyPercentage,
                   !.keep = KeepCount(s.n, LuckyPercentage)]
    ELSE IF Unreadable(v, outcome)
    THEN Raised(s, ReadFailure(s.file_type, v.closed))
    ELSE IF s.align
    THEN Callback([s EXCEPT !.pc = "aligned", !.decoded = @ + 1,
                            !.inside = 1, !.used = 1, !.i = 1],
                  1, s.n, outcome, fired, g)
    ELSE [s EXCEPT !.pc = "plain", !.decoded = @ + 1, !.inside = 1]

\* the window after a step in which the callback ran, or did not
After(called, fired) == IF called THEN ProcessEvents(Gui, fired) ELSE Gui

\* _stack_and_save on the file of the window, from the choice of the
\* method on.  For median the handler reads frame 0 itself, before its try
\* statement: that read raises on a closed parser or when it fails
\* ("preread"), and the exception leaves the handler.  For a source of more
\* than 8 GB ("large") the handler stops in the box "Large File Warning";
\* else it goes on to stack_frames, which reads frame 0 once more: that
\* read can fail on its own ("ioerror").
begin(method, align, quality_threshold, outcome, fired) ==
    /\ Interactive
    /\ view.file # NoFile
    /\ Pending(pb, fired)
    /\ LET s0 == [NoStacking EXCEPT
                    !.file_type = view.file.file_type,
                    !.n = view.file.frame_count,
                    !.name_cancelled = HoldsCancelled(view.file.name),
                    !.method = method, !.align = align,
                    !.quality_threshold = quality_threshold]
           s == IF method = "median" THEN [s0 EXCEPT !.decoded = 1] ELSE s0
           g == After(StartCalls(s, view, outcome), fired)
       IN  IF method = "median" /\ (view.closed \/ outcome = "preread")
           THEN /\ st' = Escaped(s0, ReadFailure(s0.file_type, view.closed))
                /\ fired = <<>>
                /\ view' = Gui.v
                /\ pb' = pb
           ELSE IF outcome = "large"
           THEN /\ method = "median"
                /\ fired = <<>>
                /\ st' = [s EXCEPT !.pc = "warning"]
                /\ view' = Gui.v
                /\ pb' = pb
           ELSE /\ outcome \in StartOutcomes(s)
                /\ fired # <<>> => StartCalls(s, view, outcome)
                /\ st' = Start(s, view, outcome, fired, g)
                /\ view' = g.v
                /\ pb' = g.p
    /\ UNCHANGED stackFrame

\* the answer to "Large File Warning": No ends the handler, Yes lets it go
\* on to stack_frames
warning(reply, outcome, fired) ==
    /\ st.pc = "warning"
    /\ view.boxes = <<>>
    /\ Pending(pb, fired)
    /\ outcome \in StartOutcomes(st)
    /\ LET called == reply = "Yes" /\ StartCalls(st, view, outcome)
           g == After(called, fired)
       IN  /\ fired # <<>> => called
           /\ st' = IF reply = "No"
                    THEN [st EXCEPT !.pc = "ended", !.end = "declined"]
                    ELSE Start(st, view, outcome, fired, g)
           /\ view' = g.v
           /\ pb' = g.p
    /\ UNCHANGED stackFrame

\* select_best_frames: one pass of the scoring loop
score_step(outcome, fired) ==
    /\ st.pc = "score"
    /\ st.i < st.n
    /\ Pending(pb, fired)
    /\ LET called == ~Unreadable(view, outcome)
           g == After(called, fired)
       IN  /\ fired # <<>> => called
           /\ st' = IF ~called
                    THEN Raised(st, ReadFailure(st.file_type, view.closed))
                    ELSE Callback([st EXCEPT !.decoded = @ + 1,
                                             !.inside = @ + 1, !.i = @ + 1,
                                             !.loops = @ \cup {"score"}],
                                  st.i + 1, st.n, outcome, fired, g)
           /\ view' = g.v
           /\ pb' = g.p
    /\ UNCHANGED stackFrame

\* select_best_frames after its loop: the sorts, and the retained frames
\* read again one by one, of which the first `read` are readable; then the
\* reference of align_and_stack_lucky
select_frames(read) ==
    /\ st.pc = "score"
    /\ st.i = st.n
    /\ read \in 0 .. st.keep
    /\ view.closed => read = 0
    /\ st' = IF read < st.keep
             THEN Raised([st EXCEPT !.decoded = @ + read, !.inside = @ + read],
                         ReadFailure(st.file_type, view.closed))
             ELSE [st EXCEPT !.pc = "lucky_align", !.decoded = @ + st.keep,
                             !.inside = @ + st.keep, !.used = 1, !.i = 1]
    /\ UNCHANGED <<sourceVars, lk, sv>>

\* align_and_stack_lucky: one pass of the loop over best_frames[1:]
lucky_align_step(aligned, outcome, fired) ==
    /\ st.pc = "lucky_align"
    /\ st.i < Min(st.keep, st.n)
    /\ outcome \in {"ok", "cancel"}
    /\ Pending(pb, fired)
    /\ LET g == After(TRUE, fired)
       IN  /\ st' = Callback([st EXCEPT !.used = IF aligned THEN @ + 1 ELSE @,
                                        !.i = @ + 1,
                                        !.loops = @ \cup {"lucky_align"}],
                             st.i, Min(st.keep, st.n), outcome, fired, g)
           /\ view' = g.v
           /\ pb' = g.p
    /\ UNCHANGED stackFrame

\* a plausible slip: an aligned frame is used whatever its quality
AlignStepAnyQuality(i, ecc, orb, quality, quality_threshold) ==
    LET aligned == ecc \/ orb
    IN  [read |-> TRUE, i |-> i, ecc |-> ecc, orb_attempted |-> ~ecc,
         orb |-> ~ecc /\ orb, scored |-> aligned,
         quality |-> IF aligned THEN quality ELSE 0,
         incorporated |-> aligned]

\* the body of the loop for frame i: ecc and orb say whether
\* align_frame_ecc and align_frame_orb would return a frame, quality is the
\* score of the aligned frame
AlignStep(i, ecc, orb, quality, quality_threshold) ==
    LET aligned == ecc \/ orb
    IN  [read |-> TRUE, i |-> i, ecc |-> ecc, orb_attempted |-> ~ecc,
         orb |-> ~ecc /\ orb, scored |-> aligned,
         quality |-> IF aligned THEN quality ELSE 0,
         incorporated |-> aligned /\ quality >= quality_threshold]

\* stack_frames with align_frames: one pass of the loop over frames 1 ..
aligned_step(ecc, orb, quality, outcome, fired) ==
    /\ st.pc = "aligned"
    /\ st.i < st.n
    /\ Pending(pb, fired)
    /\ LET f == AlignStep(st.i, ecc, orb, quality, st.quality_threshold)
           called == ~Unreadable(view, outcome)
           g == After(called, fired)
       IN  /\ fired # <<>> => called
           /\ st' = IF ~called
                    THEN Raised([st EXCEPT !.last = [NoFrame EXCEPT !.i = st.i]],
                                ReadFailure(st.file_type, view.closed))
                    ELSE Callback([st EXCEPT !.decoded = @ + 1,
                                             !.inside = @ + 1,
                                             !.last = f,
                                             !.used = IF f.incorporated
                                                      THEN @ + 1 ELSE @,
                                             !.i = @ + 1,
                                             !.loops = @ \cup {"aligned"}],
                                  st.i + 1, st.n, outcome, fired, g)
           /\ view' = g.v
           /\ pb' = g.p
    /\ UNCHANGED stackFrame

\* stack_frames without alignment: one pass of the loop over all frames
plain_step(outcome, fired) ==
    /\ st.pc = "plain"
    /\ st.i < st.n
    /\ Pending(pb, fired)
    /\ LET called == ~Unreadable(view, outcome)
           g == After(called, fired)
       IN  /\ fired # <<>> => called
           /\ st' = IF ~called
                    THEN Raised(st, ReadFailure(st.file_type, view.closed))
                    ELSE Callback([st EXCEPT !.decoded = @ + 1,
                                             !.inside = @ + 1,
                                             !.used = @ + 1, !.i = @ + 1,
                                             !.loops = @ \cup {"plain"}],
                                  st.i + 1, st.n, outcome, fired, g)
           /\ view' = g.v
           /\ pb' = g.p
    /\ UNCHANGED stackFrame

\* what Image.save comes to: the file cannot be opened, or writing it fails
SaveOutcomes == {"ok", "open_fails", "write_fails"}

\* after the last pass: the frames are combined, stack_frames returns the
\* image and _stack_and_save writes it to original_path, closes the
\* progress dialog and asks whether to enhance; a failed save is handled by
\* the except clause
finish(outcome) ==
    /\ \/ st.pc \in {"aligned", "plain"} /\ st.i = st.n
       \/ st.pc = "lucky_align" /\ st.i >= Min(st.keep, st.n)
    /\ outcome \in SaveOutcomes
    /\ st' = IF outcome # "ok"
             THEN Raised([st EXCEPT !.result = "image"],
                         SaveException(st.name_cancelled,
                                       outcome = "open_fails"))
             ELSE [st EXCEPT !.pc = "question", !.result = "image",
                             !.saved = TRUE]
    /\ UNCHANGED <<sourceVars, lk, sv>>

\* the answer to "Enhance Image?"
question(reply) ==
    /\ st.pc = "question"
    /\ view.boxes = <<>>
    /\ st' = [st EXCEPT !.pc = IF reply = "Yes" THEN "enhance" ELSE "inform"]
    /\ UNCHANGED <<sourceVars, lk, sv>>

\* EnhancementDialog.exec_ returns; when it was accepted and has a result,
\* the enhanced image is written to enhanced_path
enhance(accepted, has_result, outcome) ==
    /\ st.pc = "enhance"
    /\ view.boxes = <<>>
    /\ outcome \in SaveOutcomes
    /\ st' = IF accepted /\ has_result
             THEN IF outcome # "ok"
                  THEN Raised(st, SaveException(st.name_cancelled,
                                                outcome = "open_fails"))
                  ELSE [st EXCEPT !.pc = "inform", !.enhanced = TRUE]
             ELSE [st EXCEPT !.pc = "inform"]
    /\ UNCHANGED <<sourceVars, lk, sv>>

\* the box "Stacking Complete" is closed
inform ==
    /\ st.pc = "inform"
    /\ view.boxes = <<>>
    /\ st' = [st EXCEPT !.pc = "ended", !.end = "complete"]
    /\ UNCHANGED <<sourceVars, lk, sv>>

\* the box "Stacking Error" is closed
critical ==
    /\ st.pc = "critical"
    /\ view.boxes = <<>>
    /\ st' = [st EXCEPT !.pc = "ended"]
    /\ UNCHANGED <<sourceVars, lk, sv>>

Outcomes == {"ok", "cancel", "ioerror"}

\* the timers that fire in one call of the callback in SpecStack
Fired == {f \in SeqsUpTo({0}, MaxPlayed) : st.played + Len(f) <= MaxPlayed}

\* one stacking operation on a file that was loaded, was perhaps played,
\* and was perhaps closed by a load that failed
NextStack ==
    \/ \E f \in StackFiles :
           st.pc = "idle" /\ view.file = NoFile /\ load_file(f)
    \/ st.pc = "idle" /\ ~view.closed /\ load_file_fails
    \/ st.pc = "idle" /\ ~pb.is_playing /\ toggle_play_pause
    \/ \E method \in Methods, align \in BOOLEAN,
          quality_threshold \in QualityThresholds,
          outcome \in Outcomes \cup {"oserror", "large", "preread"},
          fired \in Fired :
           st.pc = "idle" /\ begin(method, align, quality_threshold, outcome,
                                  fired)
    \/ \E reply \in {"Yes", "No"}, outcome \in Outcomes \cup {"oserror"},
          fired \in Fired :
           warning(reply, outcome, fired)
    \/ (st.pc \in ModalSteps => st.played < MaxPlayed) /\ timer_fires
    \/ display_error_closed
    \/ \E outcome \in Outcomes, fired \in Fired : score_step(outcome, fired)
    \/ \E read \in 0 .. LongCount : select_frames(read)
    \/ \E aligned \in BOOLEAN, outcome \in Outcomes, fired \in Fired :
           lucky_align_step(aligned, outcome, fired)
    \/ \E ecc \in BOOLEAN, orb \in BOOLEAN, quality \in QualityChoices,
          outcome \in {"ok", "cancel"}, fired \in Fired :
           aligned_step(ecc, orb, quality, outcome, fired)
    \/ aligned_step(FALSE, FALSE, 0, "ioerror", <<>>)
    \/ \E outcome \in Outcomes, fired \in Fired : plain_step(outcome, fired)
    \/ \E outcome \in SaveOutcomes : finish(outcome)
    \/ \E reply \in {"Yes", "No"} : question(reply)
    \/ \E accepted \in BOOLEAN, has_result \in BOOLEAN,
          outcome \in SaveOutcomes :
           enhance(accepted, has_result, outcome)
    \/ inform
    \/ critical

ViewIdle ==
    /\ FreshColour(<<0, 0, 0>>, "CYYM")
    /\ al = NoAlignment
    /\ view = NoView
    /\ pb = NoPlayback

(***************************************************************************)
(* The SERParser object.                                                   *)
(***************************************************************************)
\* no VideoFile has been constructed
NoVideoFile == [state |-> "none", err |-> [kind |-> "none"]]

NoCall == [op |-> "init", idx |-> NoKey, ret |-> [kind |-> "none"], io |-> <<>>]

\* SERParser.__init__ on file f
FreshParser(f) ==
    /\ file = f
    /\ header = NoHeader
    /\ frame_size = 0
    /\ has_ts = FALSE
    /\ pOp = NoCall
    /\ handle = "open"
    /\ vf = NoVideoFile

parse_header ==
    LET r == ParseHeader(file)
    IN  /\ pOp' = [op |-> "parse_header", idx |-> NoKey, ret |-> r,
                   io |-> HeaderReads]
        /\ IF r.kind = "header"
           THEN /\ header' = r.header
                /\ frame_size' = calculate_frame_size(r.header)
                /\ has_ts' = TrailerExact(file.size, r.header.frame_count,
                                          calculate_frame_size(r.header))
           ELSE UNCHANGED <<header, frame_size, has_ts>>
        /\ UNCHANGED <<file, nonParserVars>>

get_frame(frame_index) ==
    /\ pOp' = [op |-> "get_frame", idx |-> frame_index,
               ret |-> GetFrame(file, header, frame_size, frame_index),
               io |-> FrameReads(header, frame_size, frame_index)]
    /\ UNCHANGED <<file, header, frame_size, has_ts, nonParserVars>>

has_timestamps ==
    /\ pOp' = [op |-> "has_timestamps", idx |-> NoKey,
               ret |-> [kind |-> "bool", value |-> has_ts], io |-> <<>>]
    /\ UNCHANGED <<file, header, frame_size, has_ts, nonParserVars>>

get_timestamp(frame_index) ==
    /\ pOp' = [op |-> "get_timestamp", idx |-> frame_index,
               ret |-> GetTimestamp(file, header, frame_size, has_ts, frame_index),
               io |-> TimestampReads(header, frame_size, has_ts, frame_index)]
    /\ UNCHANGED <<file, header, frame_size, has_ts, nonParserVars>>

\* the indices the frame and timestamp calls are made with
IndexChoices == (0 - 1) .. MaxCount

NextParser ==
    \/ parse_header
    \/ \E i \in IndexChoices : get_frame(i)
    \/ has_timestamps
    \/ \E i \in IndexChoices : get_timestamp(i)

InitParser ==
    /\ max_size = 0
    /\ FreshCache
    /\ \E f \in Files : FreshParser(f)
    /\ PipelineIdle
    /\ ViewIdle

(***************************************************************************)
(* The VideoFile object: its constructor opens the file through a          *)
(* SERParser and parses the header; close releases the parser and the      *)
(* cache.  The path has an extension and names an existing file or not.    *)
(***************************************************************************)
Extensions == {".ser", ".txt"}
Unsupported == [kind |-> "error", err |-> "Exception", field |-> "extension"]
NotFound == [kind |-> "error", err |-> "SERIOError", field |-> "open"]

\* VideoFile.__init__(file_path): the whole constructor
VideoFile_init(ext, exists) ==
    /\ vf.state = "none"
    /\ IF ext # ".ser"
       THEN /\ vf' = [state |-> "failed", err |-> Unsupported]
            /\ UNCHANGED <<handle, parserVars>>
       ELSE IF ~exists
       THEN /\ vf' = [state |-> "failed", err |-> NotFound]
            /\ UNCHANGED <<handle, parserVars>>
       ELSE LET r == ParseHeader(file)
            IN  /\ handle' = "open"
                /\ pOp' = [op |-> "parse_header", idx |-> NoKey, ret |-> r,
                           io |-> HeaderReads]
                /\ IF r.kind = "header"
                   THEN /\ header' = r.header
                        /\ frame_size' = calculate_frame_size(r.header)
                        /\ has_ts' = TrailerExact(file.size, r.header.frame_count,
                                                  calculate_frame_size(r.header))
                        /\ vf' = [state |-> "open", err |-> [kind |-> "none"]]
                   ELSE /\ vf' = [state |-> "failed", err |-> r]
                        /\ UNCHANGED <<header, frame_size, has_ts>>
                /\ UNCHANGED file
    /\ UNCHANGED <<cacheVars, pipelineVars, viewVars>>

\* VideoFile.close(): parser.close() and cache.clear()
VideoFile_close ==
    /\ vf.state = "open"
    /\ handle' = IF handle = "open" THEN "closed" ELSE handle
    /\ vf' = [vf EXCEPT !.state = "closed"]
    /\ ClearCache
    /\ UNCHANGED <<max_size, pfTrace, parserVars, pipelineVars, viewVars>>

\* the interpreter reclaims the parser of a failed construction once the
\* caller has dropped the exception; the file object is finalized then
finalize ==
    /\ vf.state = "failed"
    /\ handle = "open"
    /\ handle' = "closed"
    /\ vf' = [vf EXCEPT !.state = "dropped"]
    /\ UNCHANGED <<cacheVars, parserVars, pipelineVars, viewVars>>

NextOpen ==
    \/ \E ext \in Extensions, exists \in BOOLEAN : VideoFile_init(ext, exists)
    \/ VideoFile_close
    \/ finalize

\* before the constructor runs: the file on disk, no parser, no handle
InitOpen ==
    /\ max_size = MaxCap
    /\ FreshCache
    /\ \E f \in Files : file = f
    /\ header = NoHeader
    /\ frame_size = 0
    /\ has_ts = FALSE
    /\ pOp = NoCall
    /\ handle = "none"
    /\ vf = NoVideoFile
    /\ PipelineIdle
    /\ ViewIdle

\* the cache is filled by calls of put (they reach every content and
\* order a cache can have), then comes one prefetch that is looked at index
\* by index
NextPrefetch ==
    \/ /\ ~pfTrace.done
       /\ \E k \in Keys, v \in Frames : put(k, v)
    \/ /\ ~pfTrace.done
       /\ \E indices \in IndexLists :
              \E outcomes \in OutcomeLists(Len(indices)) :
                  prefetch_traced(indices, outcomes)

Init ==
    /\ InitCache
    /\ FreshParser(Encode(PlainWriter, HEADER_SIZE + 1))
    /\ PipelineIdle
    /\ ViewIdle

\* an opened source whose frames the selection and stacking calls read
OpenSource ==
    /\ max_size = MaxCap
    /\ FreshCache
    /\ FreshParser(Encode(PlainWriter, HEADER_SIZE + 1))
    /\ ViewIdle

InitLucky ==
    /\ OpenSource
    /\ \E n \in 1 .. MaxFrames :
           \E scores \in [1 .. n -> 0 .. MaxScore], p \in PercentChoices :
               FreshLucky(scores, p)
    /\ ValuesIdle
    /\ StackIdle

InitValues ==
    /\ OpenSource
    /\ LuckyIdle
    /\ \E n \in 1 .. MaxStack :
           \E frames \in [1 .. n -> PixelChoices] \cup [1 .. n -> BrightChoices] :
               FreshValues(frames)
    /\ StackIdle

InitStack ==
    /\ OpenSource
    /\ LuckyIdle
    /\ ValuesIdle
    /\ StackIdle

InitColour ==
    /\ max_size = MaxCap
    /\ FreshCache
    /\ FreshParser(Encode(PlainWriter, HEADER_SIZE + 1))
    /\ PipelineIdle
    /\ \E r \in ChannelChoices, g \in ChannelChoices, b \in ChannelChoices,
          layout \in Patterns : FreshColour(<<r, g, b>>, layout)
    /\ al = NoAlignment
    /\ view = NoView
    /\ pb = NoPlayback

Next == NextCache
Spec == Init /\ [][Next]_vars
SpecPrefetch == Init /\ [][NextPrefetch]_vars
SpecParser == InitParser /\ [][NextParser]_vars
SpecOpen == InitOpen /\ [][NextOpen]_vars
SpecLucky == InitLucky /\ [][NextLucky]_vars
SpecValues == InitValues /\ [][NextValues]_vars

InitAlign ==
    /\ max_size = MaxCap
    /\ FreshCache
    /\ FreshParser(Encode(PlainWriter, HEADER_SIZE + 1))
    /\ PipelineIdle
    /\ FreshColour(<<0, 0, 0>>, "CYYM")
    /\ \E est \in Estimates, max_shift \in MaxShiftChoices :
           FreshAlignment(est, max_shift)
    /\ view = NoView
    /\ pb = NoPlayback


InitView ==
    /\ max_size = MaxCap
    /\ FreshCache
    /\ FreshParser(Encode(PlainWriter, HEADER_SIZE + 1))
    /\ PipelineIdle
    /\ FreshColour(<<0, 0, 0>>, "CYYM")
    /\ al = NoAlignment
    /\ \E has_opencv \in BOOLEAN : view = [NoView EXCEPT !.has_opencv = has_opencv]
    /\ pb = NoPlayback


InitPlayback ==
    /\ max_size = MaxCap
    /\ FreshCache
    /\ FreshParser(Encode(PlainWriter, HEADER_SIZE + 1))
    /\ PipelineIdle
    /\ FreshColour(<<0, 0, 0>>, "CYYM")
    /\ al = NoAlignment
    /\ view = NoView
    /\ pb = NoPlayback

SpecStack == InitStack /\ [][NextStack]_vars
SpecColour == InitColour /\ [][NextColour]_vars
SpecAlign == InitAlign /\ [][NextAlign]_vars
SpecView == InitView /\ [][NextView]_vars
SpecPlayback == InitPlayback /\ [][NextPlayback]_vars
\* the event loop fires every timer that was started
SpecPlaying == InitPlayback /\ [][NextPlaying]_vars /\ WF_vars(timer_fires)

(***************************************************************************)
(* Properties of the frame cache.                                          *)
(***************************************************************************)
\* the last call was a put of a key that was absent from a cache holding
\* max_size entries
PutOnFull ==
    /\ lastOp.op = "put"
    /\ lastOp.key \notin KeysOf(lastOp.pre)
    /\ Len(lastOp.pre) = max_size

\* what the put of a new key on a full cache is said to do: the oldest entry
\* is gone, the new one is the most recent, the others are kept in order
EvictsOldest ==
    /\ Len(cache) = Len(lastOp.pre)
    /\ Len(cache) >= 1
    /\ cache[Len(cache)] = [k |-> lastOp.key, v |-> lastOp.val]
    /\ \A j \in 2 .. Len(lastOp.pre) : cache[j - 1] = lastOp.pre[j]
    /\ lastOp.pre[1].k \notin KeysOf(cache)

\* C1 as stated: a put of an absent key on a cache that holds max_size
\* entries removes exactly the least recently touched entry, makes the new
\* key the most recently used and keeps every other entry.
C1_PutEvictsLRU_AnyCapacity == PutOnFull => EvictsOldest

\* C1 amended: the same for every capacity max_size >= 1 (a cache of
\* capacity 0 evicts the new entry itself and stays empty).
C1_PutEvictsLRU == (PutOnFull /\ max_size >= 1) => EvictsOldest

C1_Witness == PutOnFull /\ max_size = MaxCap /\ MaxCap >= 2 /\ Len(cache) = max_size

\* C2: a get that hits, or a put of a present key, makes the key the most
\* recently used, keeps the order of the other entries and the number of
\* entries; put stores the new value, get returns the stored one unchanged.
C2_TouchPromotes ==
    (lastOp.op \in {"get", "put"} /\ lastOp.key \in KeysOf(lastOp.pre)) =>
        LET k == lastOp.key
            old == GetItem(lastOp.pre, k)
        IN  /\ Len(cache) = Len(lastOp.pre)
            /\ KeysOf(cache) = KeysOf(lastOp.pre)
            /\ cache[Len(cache)].k = k
            /\ RemoveKey(cache, k) = RemoveKey(lastOp.pre, k)
            /\ lastOp.op = "put" => cache[Len(cache)].v = lastOp.val
            /\ lastOp.op = "get" => (lastOp.ret = old /\ cache[Len(cache)].v = old)

C2_Witness ==
    /\ lastOp.op = "get"
    /\ Len(lastOp.pre) >= 2
    /\ lastOp.pre[1].k = lastOp.key
    /\ cache # lastOp.pre

\* a get found prevHit, and the call right after it was a put of an absent
\* key on the full cache
PutAfterHit ==
    /\ prevHit # NoKey
    /\ PutOnFull

\* C3 as stated: for every capacity max_size >= 1, a key that a get has
\* just found is not evicted by the following put of a new key.
C3_GetProtects_FromOne == (PutAfterHit /\ max_size >= 1) => prevHit \in KeysOf(cache)

\* C3 amended: for every capacity max_size >= 2, a key that a get has just
\* found is not evicted by the put of a new key that directly follows.
C3_GetProtects == (PutAfterHit /\ max_size >= 2) => prevHit \in KeysOf(cache)

C3_Witness ==
    /\ PutAfterHit
    /\ max_size >= 2
    /\ lastOp.pre[Len(lastOp.pre)].k = prevHit
    /\ Len(cache) = max_size

\* C4: the cache never holds more than max_size entries (max_size >= 0),
\* no key twice, and it is empty after clear.
C4_CapacityBound ==
    /\ Len(cache) <= max_size
    /\ Cardinality(KeysOf(cache)) = Len(cache)
    /\ lastOp.op = "clear" => cache = <<>>

C4_Witness == lastOp.op = "prefetch" /\ max_size >= 1 /\ Len(cache) = max_size

\* the cache when the traced prefetch reached position j of its list
Before(j) == IF j = 1 THEN lastOp.pre ELSE pfTrace.steps[j - 1].after

\* C5: prefetch calls fetch_func exactly for the indices absent from the
\* cache when they are reached, puts each returned frame, propagates no
\* failure, and a failure inserts nothing and does not end the loop.
C5_PrefetchSwallows ==
    pfTrace.done =>
        LET t == pfTrace.steps
            n == Len(pfTrace.indices)
        IN  /\ Len(t) = n
            /\ \A j \in 1 .. n :
                   LET k == pfTrace.indices[j]
                       o == pfTrace.outcomes[j]
                   IN  /\ t[j].idx = k
                       /\ t[j].called <=> k \notin KeysOf(Before(j))
                       /\ ~t[j].propagated
                       /\ (t[j].called /\ o # Raise) =>
                              t[j].after = PutCache(Before(j), max_size, k, o)
                       /\ (t[j].called /\ o = Raise) => t[j].after = Before(j)
                       /\ ~t[j].called => t[j].after = Before(j)
            /\ cache = IF n = 0 THEN lastOp.pre ELSE t[n].after

C5_Witness ==
    /\ pfTrace.done
    /\ Len(pfTrace.steps) = 2
    /\ pfTrace.steps[1].called
    /\ pfTrace.outcomes[1] = Raise
    /\ pfTrace.steps[2].called
    /\ pfTrace.outcomes[2] # Raise
    /\ pfTrace.indices[2] \in KeysOf(cache)

(***************************************************************************)
(* Properties of the SER parser.                                           *)
(***************************************************************************)
\* the byte order the flag at offset 22 stands for
FlagOrder == IF unpack_I("<", file.little_endian) = 0 THEN "<" ELSE ">"
\* a 4-byte header field read in that order
Field(b) == unpack_I(FlagOrder, b)

\* the frame size of a valid header, from its fields
SizeOfFrame(h) ==
    h.image_width * h.image_height
        * (IF h.pixel_depth = 8 THEN 1 ELSE 2)
        * (IF h.color_id = 100 \/ h.color_id = 101 THEN 3 ELSE 1)

Parsed == header # NoHeader

\* C6: after a successful parse_header of a file with n frames of frameSize
\* bytes, has_timestamps() is true exactly when the file size is
\* 178 + n*frameSize + n*8.
C6_TrailerExact ==
    Parsed =>
        LET exact == file.size = 178 + header.frame_count * SizeOfFrame(header)
                                     + header.frame_count * 8
        IN  /\ has_ts <=> exact
            /\ pOp.op = "has_timestamps" => (pOp.ret.value <=> exact)

C6_Witness ==
    /\ Parsed
    /\ pOp.op = "has_timestamps"
    /\ pOp.ret.value
    /\ header.frame_count >= 2

\* the first invalid part of the file, in the order truncation, magic,
\* colour identifier, bits per sample, frame count
FirstInvalid ==
    IF file.size < 178 THEN "header"
    ELSE IF file.file_id # FILE_ID THEN "FileID"
    ELSE IF Field(file.color_id) \notin {0, 1, 2, 3, 4, 8, 9, 16, 17, 100, 101} THEN "ColorID"
    ELSE IF Field(file.pixel_depth) \notin {8, 16} THEN "PixelDepth"
    ELSE IF Field(file.frame_count) = 0 THEN "FrameCount"
    ELSE "ok"

\* C7: parse_header raises a format error exactly when the header is
\* truncated, the magic is wrong, the colour identifier or the bits per
\* sample are not allowed or the frame count is 0; the error names the first
\* of these; after it no header is stored and the frame and timestamp
\* calls fail.
C7_FormatErrors ==
    /\ pOp.op = "parse_header" =>
           IF FirstInvalid = "ok"
           THEN pOp.ret.kind = "header" /\ Parsed
           ELSE pOp.ret = [kind |-> "error", err |-> "SERFormatError",
                           field |-> FirstInvalid]
    /\ FirstInvalid # "ok" => ~Parsed
    /\ (FirstInvalid # "ok" /\ pOp.op \in {"get_frame", "get_timestamp"}) =>
           pOp.ret.kind = "error"

C7_Witness ==
    /\ pOp.op = "parse_header"
    /\ pOp.ret.kind = "error"
    /\ pOp.ret.field = "PixelDepth"
    /\ Field(file.frame_count) = 0

\* C8: with flag value 0 the integer fields of the header are read as
\* little-endian, with flag value 1 as big-endian, and get_frame (16-bit
\* samples) and get_timestamp read in the same byte order.
C8_ByteOrder ==
    LET flag == unpack_I("<", file.little_endian)
        o == IF flag = 0 THEN "<" ELSE ">"
    IN  (flag \in {0, 1}) =>
            /\ (pOp.op = "parse_header" /\ pOp.ret.kind = "header") =>
                   /\ header.image_width = unpack_I(o, file.image_width)
                   /\ header.image_height = unpack_I(o, file.image_height)
                   /\ header.pixel_depth = unpack_I(o, file.pixel_depth)
                   /\ header.frame_count = unpack_I(o, file.frame_count)
                   /\ header.color_id = unpack_I(o, file.color_id)
                   /\ header.datetime_utc = unpack_Q(o, file.datetime_utc)
            /\ (pOp.op = "get_frame" /\ pOp.ret.kind = "frame"
                    /\ header.pixel_depth = 16) =>
                   /\ pOp.ret.dtype = o \o "u2"
                   /\ pOp.ret.first = unpack_H(o, file.sample)
            /\ (pOp.op = "get_timestamp" /\ pOp.ret.kind = "timestamp") =>
                   pOp.ret.raw = unpack_Q(o, file.stamp)

C8_Witness ==
    /\ unpack_I("<", file.little_endian) = 1
    /\ pOp.op = "get_timestamp"
    /\ pOp.ret.kind = "timestamp"
    /\ pOp.ret.raw = <<0, 11>>
    /\ header.image_width = file.written.width
    /\ header.pixel_depth = 16

\* C9: for every valid header the frame size is width * height *
\* (bits per sample / 8) * planes, planes being 3 for the colour identifiers
\* 100 and 101 and 1 for every other allowed one.
C9_FrameSize == Parsed => frame_size = SizeOfFrame(header)

C9_Witness ==
    /\ Parsed
    /\ header.color_id = 101
    /\ header.pixel_depth = 16
    /\ header.image_width = 2
    /\ frame_size = 12 * header.image_height

\* C10: get_frame(i) for a valid index reads exactly frameSize bytes at
\* offset 178 + i*frameSize, within the frame data; when fewer bytes are
\* there it raises an I/O error and returns no frame.
C10_FrameRead ==
    (pOp.op = "get_frame" /\ Parsed /\ pOp.idx >= 0
        /\ pOp.idx < header.frame_count) =>
        LET fs == SizeOfFrame(header)
            off == 178 + pOp.idx * fs
        IN  IF file.size - off >= fs
            THEN /\ pOp.ret.kind = "frame"
                 /\ pOp.ret.offset = off
                 /\ pOp.ret.nbytes = fs
                 /\ off + fs <= 178 + header.frame_count * fs
            ELSE pOp.ret = [kind |-> "error", err |-> "SERIOError", field |-> "read"]

C10_Witness ==
    /\ pOp.op = "get_frame"
    /\ Parsed
    /\ pOp.idx = 1
    /\ pOp.ret.kind = "error"
    /\ pOp.ret.err = "SERIOError"
    /\ file.size > 178 + SizeOfFrame(header)

\* the last call was a get_frame on a parsed header with an index outside
\* [0, frame_count)
FrameIndexOutside ==
    /\ pOp.op = "get_frame"
    /\ Parsed
    /\ (pOp.idx < 0 \/ pOp.idx >= header.frame_count)

\* the file holds all the bytes of frame i
HoldsFrame(i) == file.size >= 178 + (i + 1) * SizeOfFrame(header)

\* C11: for every index outside [0, frame_count), negative ones included,
\* get_frame raises SERIndexError without a seek or read on the file and
\* without changing the parser; the get_frame that follows such a call
\* with a valid index returns the frame when the file holds its bytes.
C11_IndexErrorHarmless ==
    [][/\ FrameIndexOutside' =>
              /\ pOp'.ret = IndexError
              /\ pOp'.io = <<>>
              /\ UNCHANGED <<file, header, frame_size, has_ts>>
       /\ (/\ FrameIndexOutside
           /\ pOp'.op = "get_frame"
           /\ pOp'.idx \in 0 .. (header.frame_count - 1)
           /\ HoldsFrame(pOp'.idx)) =>
              /\ pOp'.ret.kind = "frame"
              /\ pOp'.ret.offset = 178 + pOp'.idx * SizeOfFrame(header)
              /\ pOp'.io = <<[offset |-> pOp'.ret.offset,
                              n |-> SizeOfFrame(header)]>>]_vars

C11_Witness ==
    /\ FrameIndexOutside
    /\ pOp.idx < 0
    /\ pOp.ret = IndexError
    /\ pOp.io = <<>>
    /\ HoldsFrame(header.frame_count - 1)
    /\ header.frame_count >= 2

\* C12 as stated: for every index outside [0, frame_count) get_timestamp
\* raises SERIndexError, with or without a timestamp trailer; it returns
\* None only for an index in range on a file without trailer.
C12_TimestampIndexError ==
    (pOp.op = "get_timestamp" /\ Parsed) =>
        LET outside == pOp.idx < 0 \/ pOp.idx >= header.frame_count
        IN  /\ outside => pOp.ret = IndexError
            /\ pOp.ret = [kind |-> "none"] => (~outside /\ ~has_ts)

(***************************************************************************)
(* Properties of VideoFile.                                                *)
(***************************************************************************)
\* the constructor failed after SERParser.__init__ had opened the file:
\* parse_header raised a format or an I/O error, which the caller now holds
OpenFailedInParse ==
    /\ vf.state = "failed"
    /\ pOp.op = "parse_header"
    /\ pOp.ret.kind = "error"
    /\ vf.err = pOp.ret

\* C13 as stated: when the construction of a VideoFile fails after the
\* parser has opened the file, the file handle is closed by the time the
\* error reaches the caller; no failed open leaves a handle open.
C13_FailedOpenReleases == OpenFailedInParse => handle = "closed"

(***************************************************************************)
(* Properties of lucky imaging.                                            *)
(***************************************************************************)
\* floor(n * p / 100)
FloorPercent(n, p) == (n * p) \div 100

\* C14 as stated: the reference of align_and_stack_lucky is the
\* highest-scoring frame of the retained set; no retained frame has a
\* strictly higher score than the reference.
C14_ReferenceIsSharpest ==
    lk.op = "stack" =>
        /\ \E j \in 1 .. Len(lk.best) : lk.best[j] = lk.ref
        /\ \A j \in 1 .. Len(lk.best) : lk.best[j].score <= lk.ref.score

\* C15 as stated: for every n >= 1 and every percentage p,
\* select_best_frames returns exactly max(1, floor(n*p/100)) frames.
C15_RetainedCount_AnyPercentage ==
    lk.op = "select" => Len(lk.best) = Max(1, FloorPercent(lk.n, lk.p))

\* C15 amended: select_best_frames returns exactly
\* min(n, max(1, floor(n*p/100))) frames, which is max(1, floor(n*p/100))
\* for every percentage p <= 100.
C15_RetainedCount ==
    lk.op = "select" =>
        /\ Len(lk.best) = Min(lk.n, Max(1, FloorPercent(lk.n, lk.p)))
        /\ lk.p <= 100 => Len(lk.best) = Max(1, FloorPercent(lk.n, lk.p))

C15_Witness ==
    /\ lk.op = "select"
    /\ lk.p = 50
    /\ lk.n >= 2
    /\ Len(lk.best) < lk.n

\* C16: the list select_best_frames returns is strictly increasing in
\* frame index, holds no index twice, and holds the top-scoring frames:
\* the score of a retained frame is at least the score of every frame
\* that was not retained.
C16_TopFramesInOrder ==
    lk.op = "select" =>
        LET kept == {lk.best[j].idx : j \in 1 .. Len(lk.best)}
        IN  /\ \A j \in 1 .. Len(lk.best) :
                   /\ lk.best[j].idx \in 0 .. (lk.n - 1)
                   /\ lk.best[j].score = lk.scores[lk.best[j].idx + 1]
            /\ \A j \in 1 .. (Len(lk.best) - 1) :
                   lk.best[j].idx < lk.best[j + 1].idx
            /\ Cardinality(kept) = Len(lk.best)
            /\ \A i \in kept, o \in (0 .. (lk.n - 1)) \ kept :
                   lk.scores[i + 1] >= lk.scores[o + 1]

C16_Witness ==
    /\ lk.op = "select"
    /\ Len(lk.best) >= 2
    /\ Len(lk.best) < lk.n
    /\ lk.best[1].idx > 0
    /\ lk.best[1].score < lk.best[2].score

(***************************************************************************)
(* Properties of stacking.                                                 *)
(***************************************************************************)
Scenario == <<10, 20, 30, 40, 50>>
Uniform(v) == \A j \in 1 .. Len(sv.frames) : sv.frames[j] = v

\* C17 as stated: stacking by sum always normalizes the raw sum to the
\* output range, with or without auto_stretch: frames of uniform values,
\* the frames 10, 20, 30, 40, 50 among them, give the maximal output value
\* 255 in every pixel, and the raw sum is never narrowed to 8 bits as it is.
C17_SumNormalized ==
    (sv.op = "stack" /\ sv.method = "sum") => sv.out = 255

\* C18: without alignment and with the default auto-stretch, frames of
\* one uniform value each leave the combined value unscaled: N frames of
\* value v give v by average, and the frames 10, 20, 30, 40, 50 give 30 by
\* average and 30 by median.
C18_UniformUnscaled ==
    (sv.op = "stack" /\ sv.auto_stretch) =>
        /\ sv.method = "average" =>
               /\ \A v \in PixelChoices \cup BrightChoices : Uniform(v) => sv.out = v
               /\ sv.out * Len(sv.frames) <= SumOf(sv.frames)
               /\ (sv.out + 1) * Len(sv.frames) > SumOf(sv.frames)
        /\ sv.method = "median" =>
               \A v \in PixelChoices \cup BrightChoices : Uniform(v) => sv.out = v
        /\ (sv.frames = Scenario /\ sv.method \in {"average", "median"}) =>
               sv.out = 30

C18_Witness ==
    /\ sv.op = "stack"
    /\ sv.auto_stretch
    /\ sv.frames = Scenario
    /\ sv.method = "median"
    /\ sv.out = 30

\* C19 as stated: when the callback signals cancellation at a checkpoint,
\* the operation ends as cancelled, stack_frames returns no image, no frame
\* is decoded or accumulated after the checkpoint and _stack_and_save
\* writes no file; an operation ends as cancelled only when the callback
\* signalled it.
C19_CancelAborts ==
    /\ st.signalled =>
           /\ st.pc = "ended"
           /\ st.end = "cancelled"
           /\ st.result = "none"
           /\ ~st.saved
           /\ st.decoded = st.atSignal.decoded
           /\ st.used = st.atSignal.used
           /\ st.progress # <<>>
    /\ st.end = "cancelled" => st.signalled

\* C20: once stack_frames is called, for a source of file_type AVI or MP4
\* it delegates to lucky stacking with percentage 10, whatever align_frames
\* is, and never runs the native loops; for a SER source it never
\* delegates.
C20_Delegation ==
    (st.pc \notin {"idle", "warning"} /\ st.end \notin {"escaped", "declined"}) =>
        IF st.file_type \in {"AVI", "MP4"}
        THEN /\ st.delegated
             /\ st.percentage = 10
             /\ st.loops \subseteq {"score", "lucky_align"}
             /\ st.pc \notin {"aligned", "plain"}
        ELSE /\ ~st.delegated
             /\ st.percentage = 0
             /\ st.loops \subseteq {"aligned", "plain"}
             /\ st.pc \notin {"score", "lucky_align"}

C20_Witness ==
    /\ st.file_type = "MP4"
    /\ ~st.align
    /\ st.delegated
    /\ st.loops = {"score", "lucky_align"}
    /\ st.end = "complete"

(***************************************************************************)
(* Properties of the colour reconstruction.                                *)
(***************************************************************************)
\* the 8-bit block process_frame works on
BlockOf == Compose(cr.rgb, cr.layout)

\* C21 as stated: for a raw frame of each of the colour identifiers 8, 9,
\* 16 and 17 process_frame reconstructs colour with the 2x2 solve of
\* debayer_cyym under the selected orientation, not by mono replication.
C21_CyymFamilySolved ==
    (cr.op = "process_frame" /\ cr.color_id \in {8, 9, 16, 17}) =>
        /\ cr.out.how = "debayer_cyym"
        /\ cr.out.how # "mono_to_rgb"
        /\ cr.out.px = debayer_cyym(BlockOf, cr.pattern)

\* the readings of the scene fit the 8-bit samples
ReadingsFit ==
    /\ cr.rgb[2] + cr.rgb[3] <= 255
    /\ cr.rgb[1] + cr.rgb[2] <= 255
    /\ cr.rgb[1] + cr.rgb[3] <= 255

\* C22: for all R, G, B with G+B, R+G and R+B within the 8-bit range, the
\* block composed of Cy, Y, Y, Mg in the cell positions of an orientation
\* and solved under that orientation gives back exactly R, G, B, for each
\* of CYYM, YCMY, YMCY and MYYC.
C22_CyymRoundTrip ==
    /\ ReadingsFit => debayer_cyym(BlockOf, cr.layout) = cr.rgb
    /\ (/\ cr.op = "process_frame"
        /\ cr.out.how = "debayer_cyym"
        /\ cr.pattern = cr.layout
        /\ ReadingsFit) => cr.out.px = cr.rgb

C22_Witness ==
    /\ cr.op = "process_frame"
    /\ cr.out.how = "debayer_cyym"
    /\ cr.layout = "YMCY"
    /\ cr.pattern = cr.layout
    /\ cr.rgb = <<1, 100, 128>>
    /\ cr.out.px = cr.rgb
    /\ cr.pixel_depth = 16

(***************************************************************************)
(* Properties of the alignment functions.                                  *)
(***************************************************************************)
\* a transform was estimated
Estimated ==
    /\ ~al.est.raises
    /\ al.est.features
    /\ al.est.good >= MinMatches
    /\ al.est.M # NoMatrix

\* its translation magnitude sqrt(tx^2 + ty^2) exceeds max_shift
MagnitudeBeyond ==
    al.est.M.tx * al.est.M.tx + al.est.M.ty * al.est.M.ty
        > al.max_shift * al.max_shift

\* one of its two translation components exceeds max_shift
ComponentBeyond ==
    Abs(al.est.M.tx) > al.max_shift \/ Abs(al.est.M.ty) > al.max_shift

\* C23 as stated: align_frame_features returns an alignment failure for
\* every frame whose estimated transform has a translation beyond the
\* maximum shift, so that lucky stacking never incorporates such a frame.
C23_FeaturesRejectShift ==
    (al.op = "align_frame_features" /\ Estimated /\ ComponentBeyond) =>
        al.out = Failure

\* C25 as stated: align_frame_orb returns an alignment failure whenever
\* sqrt(tx^2 + ty^2) exceeds max_shift, and a transformed frame only when
\* that magnitude is at most max_shift.
C25_OrbRejectsMagnitude ==
    (al.op = "align_frame_orb" /\ Estimated) =>
        /\ MagnitudeBeyond => al.out = Failure
        /\ al.out = Aligned => ~MagnitudeBeyond

(***************************************************************************)
(* Properties of native stacking with alignment.                           *)
(***************************************************************************)
\* C24: in native stacking with alignment, for a frame i >= 1 that was
\* read, align_frame_orb is attempted exactly when align_frame_ecc failed;
\* the frame is incorporated exactly when one of the two succeeded and the
\* quality of the aligned frame is at least quality_threshold; frame 0 is
\* incorporated once it is read, so the number of frames used is between 1
\* and the frame count; and a failed alignment raises nothing: after it
\* the run goes on, is cancelled, or fails only in saving the image that
\* stack_frames returned.
C24_AlignedStacking ==
    (~st.delegated /\ st.align /\ st.inside >= 1) =>
        /\ st.used >= 1
        /\ st.used <= st.n
        /\ st.used <= st.inside
        /\ st.last.read =>
              /\ st.last.i >= 1
              /\ st.last.orb_attempted <=> ~st.last.ecc
              /\ st.last.incorporated <=>
                    /\ st.last.ecc \/ st.last.orb
                    /\ st.last.quality >= st.quality_threshold
              /\ ~(st.last.ecc \/ st.last.orb) =>
                    \/ st.exc \in {NoException, CancelException}
                    \/ st.exc.type = "OSError" /\ st.result = "image"

\* both strategies failed for frame 1, a later frame was aligned and then
\* rejected for its quality, and the run completed with frame 0 alone
C24_Witness ==
    /\ st.end = "complete"
    /\ st.align
    /\ ~st.delegated
    /\ st.n = 3
    /\ st.used = 1
    /\ st.last.orb_attempted
    /\ st.last.orb
    /\ ~st.last.incorporated

(***************************************************************************)
(* Properties of the progress reports.                                     *)
(***************************************************************************)
\* the calls of the callback so far: current rises strictly from call to
\* call and never exceeds total
ProgressRises ==
    /\ \A k \in 1 .. Len(st.progress) : st.progress[k][1] <= st.progress[k][2]
    /\ \A k \in 1 .. Len(st.progress) - 1 :
          st.progress[k][1] < st.progress[k + 1][1]

\* C26 as stated: in a stacking operation that is not cancelled, native or
\* delegated to lucky stacking, the callback is invoked once after each
\* frame processed, current rises strictly from call to call and never
\* exceeds total, and the last call reports current equal to total.
C26_ProgressRisesToTotal ==
    /\ ~st.signalled => ProgressRises
    /\ st.result = "image" =>
          /\ Len(st.progress) >= 1
          /\ st.progress[Len(st.progress)][1] = st.progress[Len(st.progress)][2]

(***************************************************************************)
(* Properties of the main window's cache.                                  *)
(***************************************************************************)
\* C27: after any sequence of loads, pattern changes, displays, prefetches
\* and playback, every entry (i, buffer) of the cache of the open file holds
\* the reconstruction of frame i under the present CYYM_PATTERN, so a
\* display served from the cache shows what a fresh reconstruction gives.
C27_CacheCoherent ==
    /\ \A j \in 1 .. Len(view.entries) :
          view.entries[j].v = Reconstruct(view, view.entries[j].k)
    /\ view.shown.image # NoImage =>
          /\ view.shown.i = pb.current
          /\ view.shown.image = Reconstruct(view, pb.current)

\* a CYYM file whose detected pattern was replaced by the user's and that
\* is then played: frame 1 is prefetched and displayed from the cache
C27_Witness ==
    /\ view.file.name = "a.ser"
    /\ view.CYYM_PATTERN = "MYYC"
    /\ Len(view.entries) = 2
    /\ pb.op = "toggle_play_pause"
    /\ view.shown.i = 1
    /\ view.shown.hit

(***************************************************************************)
(* Properties of playback.                                                 *)
(***************************************************************************)
\* C28 as stated: whatever the interleaving of play, pause,
\* toggle_play_pause, stop and timer firings, at most one _advance_frame
\* timer is pending at a time.
C28_OneTimerPending == pb.timers <= 1

PlaybackEnded ==
    /\ pb.current = pb.total - 1
    /\ ~pb.is_playing
    /\ pb.timers = 0

\* the current frame is a frame of the file, and the latest prefetch
\* request holds only indices after the frame it was made at and before
\* the end of the file
PlaybackInRange ==
    /\ pb.current \in 0 .. (pb.total - 1)
    /\ \A i \in pb.request.indices : pb.request.at < i /\ i < pb.total
    /\ pb.request.at <= pb.current

\* C29: after play(), when nobody pauses or stops and every
\* timer fires, playback comes to rest on the last frame with is_playing
\* false and no timer pending; all along the current frame is within the
\* file and every prefetch request holds only indices after the current
\* frame and before the end of the file.
C29_PlaybackTerminates ==
    /\ [](pb.op # "init" => PlaybackInRange)
    /\ (pb.op # "init") ~> PlaybackEnded

\* playback ran through a file of more than the prefetch window and
\* stopped by itself on the last frame
C29_Witness ==
    /\ pb.op = "timer"
    /\ pb.timer_callback
    /\ pb.prefetch_callback
    /\ pb.total > PrefetchWindow
    /\ PlaybackEnded
    /\ pb.request.at = pb.total - 2

(***************************************************************************)
(* Properties of what a prefetch leaves in the cache.                      *)
(***************************************************************************)
Requested == {pfTrace.indices[j] : j \in 1 .. Len(pfTrace.indices)}

\* C30 as stated: after a prefetch in which every fetch succeeds and the
\* distinct requested indices are at most max_size, every requested index
\* is in the cache, whatever the cache held before.
C30_PrefetchedPresent ==
    (/\ pfTrace.done
     /\ \A j \in 1 .. Len(pfTrace.outcomes) : pfTrace.outcomes[j] # Raise
     /\ Cardinality(Requested) <= max_size) =>
        Requested \subseteq KeysOf(cache)

=============================================================================
